---- MODULE Spec2Model ----
(***************************************************************************)
(* BOQ dashboard: item-code grammar, coverage relation, hierarchy index,   *)
(* derived calculation pass and rollup engine of                           *)
(* jimlakiss/boq-dashboard.  The model follows the first revision of       *)
(* src/unnamed/part_000 (lines 1-759); the other revisions share its code  *)
(* utilities and hierarchy builder.                                        *)
(*                                                                         *)
(* An item code is the sequence of its dot-separated segments.  A segment  *)
(* is a decimal number (0..), a rate marker "R<digits>" or some other      *)
(* non-numeric text; the empty code "" is the empty sequence, and so is     *)
(* what is left of ".R1" once the rate marker is stripped.                 *)
(* A cell's text is Blank (""), BadText (text no number parser accepts)    *)
(* or the amount it shows: cents for money, units for quantity, percent    *)
(* for the factor.  A JavaScript number holding money is kept in           *)
(* hundredths of a cent, so that formatMoney's rounding to two decimals    *)
(* is a real conversion.                                                   *)
(***************************************************************************)
EXTENDS Integers, Sequences, FiniteSets, TLC

VARIABLES
    ca, cb, cres,          \* code utilities: two argument codes, the results
    cc, cord,              \* a third code; covers among the three codes
    hcodes, hidx,          \* hierarchy builder: the rows' codes, the index built
    crow, cout,            \* derived calculation pass: one row before and after
    cagain, vout,          \* the row after a second run; the runs of the
                           \* value-based revision
    data, rows, hier,      \* the page: parsed CSV, DOM rows, hierarchy index
    phase, edits,          \* boot position, number of committed edits
    pre,                   \* the rows as the latest rollup pass received them
    passes,                \* full recomputes run so far
    pdata, pol,            \* rollup policies: parsed CSV, each revision's load
    urows, uhier, ui,      \* collapse / expand: row codes, index, row display
    odata, orows,          \* overrides: parsed CSV, DOM rows with their inputs
    storage, captured,     \* localStorage's item, each row's overrides object
    committed,             \* the rows with a committed edit
    served, container,     \* startup: the CSV served, the boqContainer element
    fired, boots           \* events fired so far, the calls of bootBoq

codeVars == <<ca, cb, cres, cc, cord>>
hierVars == <<hcodes, hidx>>
calcVars == <<crow, cout, cagain, vout>>
pageVars == <<data, rows, hier, phase, edits, pre, passes>>
polVars == <<pdata, pol>>
uiVars == <<urows, uhier, ui>>
ovVars == <<odata, orows, storage, captured, committed>>
bootVars == <<served, container, fired, boots>>

vars == <<codeVars, hierVars, calcVars, pageVars, polVars, uiVars, ovVars, bootVars>>

-----------------------------------------------------------------------------
(* Bounds of the model *)

MaxTrade == 2      \* trade / subtrade segments range over 1..MaxTrade
MaxSlot == 2       \* numeric slot segments range over 0..MaxSlot
MaxSegs == 4       \* segments per code given to the code utilities
MaxRows == 4       \* rows per sequence given to the hierarchy builder
MaxPageRows == 3   \* rows of a loaded page
MaxQty == 2        \* quantities given to the derived calculation pass
MaxEdits == 1      \* committed edits per page
MaxTurbo == 2      \* turbo:load events per document

-----------------------------------------------------------------------------
(* Encodings *)

NaN == -1          \* parseInt(segment, 10) of a non-numeric segment
XSeg == -3         \* a segment of non-numeric text that is no rate marker
ESeg == -4         \* the empty segment, as the one before the dot of ".R1"
R1 == -11          \* the segment "R1"
R2 == -12          \* the segment "R2"
NullTok == -99
Null == <<NullTok>>    \* JavaScript null where a code is expected
Blank == -1        \* the empty text ""
BadText == -2      \* non-empty text that parseFloat rejects
NullNum == -1      \* a null number (parsePercent's null, subtotal = null)

RateSegs == {R1, R2}

EmptyCode == <<>>

Truthy(code) == code # EmptyCode /\ code # Null

-----------------------------------------------------------------------------
(* CODE UTILITIES *)

\* /\.R\d+$/ : the last segment is a rate marker and a dot precedes it
isRate(code) ==
    /\ code # Null
    /\ Len(code) >= 2
    /\ code[Len(code)] \in RateSegs

\* code.replace(/\.R\d+$/, ""); ".R1" leaves ""
stripRate(code) ==
    IF code = Null THEN EmptyCode
    ELSE IF isRate(code)
         THEN IF SubSeq(code, 1, Len(code) - 1) = <<ESeg>> THEN EmptyCode
              ELSE SubSeq(code, 1, Len(code) - 1)
    ELSE code

\* "" stands for the empty prefix
tradePrefix(code) ==
    LET parts == stripRate(code)
    IN  IF Len(parts) >= 2 THEN SubSeq(parts, 1, 2) ELSE EmptyCode

parseInt(seg) == IF seg >= 0 THEN seg ELSE NaN

numericSlots(code) ==
    LET parts == stripRate(code)
        n == IF Len(parts) >= 2 THEN Len(parts) - 2 ELSE 0
    IN  [i \in 1..n |-> parseInt(parts[i + 2])]

\* a !== b on numbers; NaN differs from everything, itself included
StrictNeq(a, b) == a = NaN \/ b = NaN \/ a # b

RECURSIVE CountNonZero(_, _)
CountNonZero(slots, i) ==
    IF i > Len(slots) THEN 0
    ELSE (IF StrictNeq(slots[i], 0) THEN 1 ELSE 0) + CountNonZero(slots, i + 1)

zeroCount(code) == Len(numericSlots(code)) - CountNonZero(numericSlots(code), 1)

nonZeroCount(code) == CountNonZero(numericSlots(code), 1)

RECURSIVE CoversLoopEitherWildcard(_, _, _)
CoversLoopEitherWildcard(p, c, i) ==
    IF i > Len(p) THEN TRUE
    ELSE IF /\ StrictNeq(p[i], 0)
            /\ i > Len(c) \/ (StrictNeq(c[i], 0) /\ StrictNeq(p[i], c[i]))
         THEN FALSE
    ELSE CoversLoopEitherWildcard(p, c, i + 1)

\* the for loop of covers, from index i on; c[i] is undefined past c's end
RECURSIVE CoversLoop(_, _, _)
CoversLoop(p, c, i) ==
    IF i > Len(p) THEN TRUE
    ELSE IF StrictNeq(p[i], 0) /\ (i > Len(c) \/ StrictNeq(p[i], c[i])) THEN FALSE
    ELSE CoversLoop(p, c, i + 1)

CoversNoPrefixCheck(parentCode, childCode) ==
    IF ~Truthy(parentCode) \/ ~Truthy(childCode) THEN FALSE
    ELSE CoversLoop(numericSlots(parentCode), numericSlots(childCode), 1)

covers(parentCode, childCode) ==
    IF ~Truthy(parentCode) \/ ~Truthy(childCode) THEN FALSE
    ELSE IF tradePrefix(parentCode) # tradePrefix(childCode) THEN FALSE
    ELSE CoversLoop(numericSlots(parentCode), numericSlots(childCode), 1)

isDescendant(parentCode, childCode) ==
    IF ~Truthy(parentCode) \/ ~Truthy(childCode) THEN FALSE
    ELSE IF stripRate(parentCode) = stripRate(childCode) THEN FALSE
    ELSE IF isRate(childCode) THEN FALSE
    ELSE covers(parentCode, childCode)

-----------------------------------------------------------------------------
(* HIERARCHY INDEX *)

\* a Map with key k set to v
MapSet(m, k, v) == [x \in (DOMAIN m) \cup {k} |-> IF x = k THEN v ELSE m[x]]

NotRate(code) == ~isRate(code)

\* .filter(x => x.code && !isRate(x.code))
IsNode(code) == Truthy(code) /\ ~isRate(code)

NoBest == [parent |-> Null, spec |-> -1, idx |-> 0]

BetterFirstWins(spec, idx, best) == spec > best.spec

\* spec > bestSpec || (spec === bestSpec && p.idx > bestIdx)
Better(spec, idx, best) ==
    spec > best.spec \/ (spec = best.spec /\ idx > best.idx)

\* the candidate loop for the node at row n, from row p on; the candidates
\* are the nodes of n's trade prefix in row order
RECURSIVE ScanCandidates(_, _, _, _)
ScanCandidates(codes, n, p, best) ==
    IF p > Len(codes) THEN best
    ELSE IF \/ ~IsNode(codes[p])
            \/ tradePrefix(codes[p]) # tradePrefix(codes[n])
            \/ p >= n
            \/ ~covers(codes[p], codes[n])
         THEN ScanCandidates(codes, n, p + 1, best)
    ELSE IF Better(nonZeroCount(codes[p]), p, best)
         THEN ScanCandidates(codes, n, p + 1,
                  [parent |-> codes[p], spec |-> nonZeroCount(codes[p]), idx |-> p])
    ELSE ScanCandidates(codes, n, p + 1, best)

SelfParentKept(found, code) == found

\* if (bestParent === n.code) bestParent = null
DropSelfParent(found, code) == IF found = code THEN Null ELSE found

BestParent(codes, n) ==
    DropSelfParent(ScanCandidates(codes, n, 1, NoBest).parent, codes[n])

\* the "find parents" loop from row n on; st holds parentOf and childrenOf
RECURSIVE FindParents(_, _, _)
FindParents(codes, n, st) ==
    IF n > Len(codes) THEN st
    ELSE IF ~IsNode(codes[n]) THEN FindParents(codes, n + 1, st)
    ELSE LET bp == BestParent(codes, n)
             po == MapSet(st.parentOf, codes[n], bp)
             co == IF Truthy(bp) /\ bp \in DOMAIN st.childrenOf
                   THEN [st.childrenOf EXCEPT ![bp] = Append(@, codes[n])]
                   ELSE st.childrenOf
         IN  FindParents(codes, n + 1, [parentOf |-> po, childrenOf |-> co])

RECURSIVE AttachToExistingOnly(_, _, _)
AttachToExistingOnly(codes, i, rc) ==
    IF i > Len(codes) THEN rc
    ELSE IF ~Truthy(codes[i]) \/ ~isRate(codes[i]) THEN AttachToExistingOnly(codes, i + 1, rc)
    ELSE IF stripRate(codes[i]) \notin DOMAIN rc THEN AttachToExistingOnly(codes, i + 1, rc)
    ELSE AttachToExistingOnly(codes, i + 1,
             [rc EXCEPT ![stripRate(codes[i])] = Append(@, codes[i])])

\* the "attach rate rows" loop from row i on
RECURSIVE AttachRates(_, _, _)
AttachRates(codes, i, rc) ==
    IF i > Len(codes) THEN rc
    ELSE IF ~Truthy(codes[i]) \/ ~isRate(codes[i]) THEN AttachRates(codes, i + 1, rc)
    ELSE LET base == stripRate(codes[i])
             old == IF base \in DOMAIN rc THEN rc[base] ELSE <<>>
         IN  AttachRates(codes, i + 1, MapSet(rc, base, Append(old, codes[i])))

\* whether the parent chain of code ends at a root within fuel steps
RECURSIVE ChainEnds(_, _, _)
ChainEnds(parentOf, code, fuel) ==
    IF ~Truthy(parentOf[code]) THEN TRUE
    ELSE IF fuel = 0 THEN FALSE
    ELSE ChainEnds(parentOf, parentOf[code], fuel - 1)

\* computeDepth recurses without end (RangeError: Maximum call stack size
\* exceeded) exactly when some node's parent chain runs into a cycle
DepthOverflows(parentOf) ==
    \E c \in DOMAIN parentOf :
        ~ChainEnds(parentOf, c, Cardinality(DOMAIN parentOf))

RootDepthOne(p, below) == below + 1

\* const d = p ? computeDepth(p) + 1 : 0
DepthStep(p, below) == IF Truthy(p) THEN below + 1 ELSE 0

RECURSIVE computeDepth(_, _)
computeDepth(parentOf, code) ==
    DepthStep(parentOf[code],
              IF Truthy(parentOf[code]) THEN computeDepth(parentOf, parentOf[code])
              ELSE 0)

NodeCodes(codes) == {codes[i] : i \in {j \in 1..Len(codes) : IsNode(codes[j])}}

\* threw: the build ended in computeDepth's stack overflow and returned nothing;
\* the maps are then the function's locals at the throw
buildHierarchyIndex(codes) ==
    LET empty == [c \in NodeCodes(codes) |-> <<>>]
        st == FindParents(codes, 1, [parentOf |-> <<>>, childrenOf |-> empty])
        rc == AttachRates(codes, 1, empty)
        threw == DepthOverflows(st.parentOf)
    IN  [parentOf |-> st.parentOf,
         childrenOf |-> st.childrenOf,
         rateChildrenOf |-> rc,
         depthOf |-> IF threw THEN <<>>
                     ELSE [c \in DOMAIN st.parentOf |-> computeDepth(st.parentOf, c)],
         threw |-> threw]

-----------------------------------------------------------------------------
(* NUMBER HELPERS *)

\* parseFloat of a quantity text; 0 when it is not a finite number
parseNumber(v) == IF v >= 0 THEN v ELSE 0

\* a money text (cents) as a number (hundredths of a cent); 0 when unparseable
parseMoney(v) == IF v >= 0 THEN v * 100 ELSE 0

\* a percent text as a number; null when unparseable
parsePercent(v) == IF v >= 0 THEN v ELSE NullNum

\* "$" + n.toFixed(2): a number (hundredths of a cent) rounded to cents
formatMoney(n) == (n + 50) \div 100

cellNeverUploaded(flag) == FALSE

\* cellEl.dataset.uploaded === "1"
cellHasUploadedValue(flag) == flag

-----------------------------------------------------------------------------
(* CALCULATIONS *)

\* one iteration of applyRowCalculations' loop; qty, rate and mk are what
\* getCellNumericText returns (the input's value on an editable row)
CalcRow(r) ==
    LET qty == parseNumber(r.qty)
        rate == parseMoney(r.rate)
        subtotal ==
            IF cellHasUploadedValue(r.upSub) THEN parseMoney(r.sub)
            ELSE IF qty # 0 /\ rate # 0 THEN qty * rate
            ELSE NullNum
        subText ==
            IF cellHasUploadedValue(r.upSub) THEN r.sub
            ELSE IF qty # 0 /\ rate # 0 THEN formatMoney(qty * rate)
            ELSE Blank
        pct ==
            IF cellHasUploadedValue(r.upMk) \/ r.mk # Blank
            THEN parsePercent(r.mk)
            ELSE NullNum
        total ==
            IF pct # NullNum THEN (subtotal * (100 + pct)) \div 100 ELSE subtotal
        totText ==
            IF cellHasUploadedValue(r.upTot) THEN r.tot
            ELSE IF subtotal # NullNum THEN formatMoney(total)
            ELSE Blank
    IN  [r EXCEPT !.sub = subText, !.tot = totText]

applyRowCalculations(allRows) ==
    [i \in 1..Len(allRows) |-> CalcRow(allRows[i])]

textNeverCounts(text) == FALSE

\* the value-based revision (public/boq/index.js): a cell counts as uploaded
\* when it holds any text
cellHasTextValue(text) == text # Blank

\* one iteration of the value-based applyRowCalculations' loop
CalcRowByValue(r) ==
    LET qty == parseNumber(r.qty)
        rate == parseMoney(r.rate)
        computes == ~cellHasTextValue(r.sub) /\ qty # 0 /\ rate # 0
        subtotal ==
            IF cellHasTextValue(r.sub) THEN parseMoney(r.sub)
            ELSE IF computes THEN qty * rate
            ELSE NullNum
        subText == IF computes THEN formatMoney(qty * rate) ELSE r.sub
        pct == IF cellHasTextValue(r.mk) THEN parsePercent(r.mk) ELSE NullNum
        total ==
            IF pct # NullNum THEN (subtotal * (100 + pct)) \div 100 ELSE subtotal
        totText ==
            IF cellHasTextValue(r.tot) THEN r.tot
            ELSE IF subtotal # NullNum THEN formatMoney(total)
            ELSE r.tot
    IN  [r EXCEPT !.sub = subText, !.tot = totText]

applyRowCalculationsByValue(allRows) ==
    [i \in 1..Len(allRows) |-> CalcRowByValue(allRows[i])]

-----------------------------------------------------------------------------
(* ROLLUPS *)

anyRowCounts(r) == TRUE

rowHasUploadedMoney(r) ==
    cellHasUploadedValue(r.upSub) \/ cellHasUploadedValue(r.upTot)

attachedOnly(nCode, base) == base = nCode

\* const within = base === nCode || isDescendant(nCode, base)
within(nCode, base) == base = nCode \/ isDescendant(nCode, base)

\* whether row r is added to the sums of the node with code nCode
Contributes(r, nCode) ==
    /\ Truthy(r.code)
    /\ within(nCode, stripRate(r.code))
    /\ isRate(r.code) \/ rowHasUploadedMoney(r)

\* the inner loop of recomputeAllRollups from row i on; acc holds the sums
RECURSIVE SumRows(_, _, _, _)
SumRows(allRows, nCode, i, acc) ==
    IF i > Len(allRows) THEN acc
    ELSE IF Contributes(allRows[i], nCode)
         THEN SumRows(allRows, nCode, i + 1,
                  [subtotal |-> acc.subtotal + parseMoney(allRows[i].sub),
                   total |-> acc.total + parseMoney(allRows[i].tot)])
    ELSE SumRows(allRows, nCode, i + 1, acc)

\* a rollup loop that takes every row for a node
RECURSIVE RollupEveryRow(_, _)
RollupEveryRow(allRows, n) ==
    IF n > Len(allRows) THEN allRows
    ELSE LET s == SumRows(allRows, allRows[n].code, 1, [subtotal |-> 0, total |-> 0])
         IN  RollupEveryRow([allRows EXCEPT ![n].qty = Blank,
                                            ![n].sub = formatMoney(s.subtotal),
                                            ![n].tot = formatMoney(s.total)],
                            n + 1)

\* the outer loop from row n on: each node is written before the next is summed
RECURSIVE RollupLoop(_, _)
RollupLoop(allRows, n) ==
    IF n > Len(allRows) THEN allRows
    ELSE IF ~IsNode(allRows[n].code) THEN RollupLoop(allRows, n + 1)
    ELSE LET s == SumRows(allRows, allRows[n].code, 1, [subtotal |-> 0, total |-> 0])
         IN  RollupLoop([allRows EXCEPT ![n].qty = Blank,
                                        ![n].sub = formatMoney(s.subtotal),
                                        ![n].tot = formatMoney(s.total)],
                        n + 1)

recomputeAllRollups(allRows, hierarchy) == RollupLoop(allRows, 1)

-----------------------------------------------------------------------------
(* CSV LOAD, RATE EDITING, STARTUP *)

\* one row of renderFromCSV: the cells' texts and their uploaded tags
RenderRow(d) ==
    [code |-> d.CODE, qty |-> d.QTY, rate |-> d.RATE,
     sub |-> d.SUBTOTAL, mk |-> d.MARKUP, tot |-> d.TOTAL,
     upSub |-> d.SUBTOTAL # Blank,
     upMk |-> d.MARKUP # Blank,
     upTot |-> d.TOTAL # Blank,
     editable |-> FALSE]

renderFromCSV(d) == [i \in 1..Len(d) |-> RenderRow(d[i])]

\* inputs replace the quantity, rate and factor texts of a rate row; with no
\* stored override each input starts with the cell's text
enableEditingForRateRow(r) ==
    IF ~Truthy(r.code) \/ ~isRate(r.code) THEN r
    ELSE IF r.editable THEN r
    ELSE [r EXCEPT !.editable = TRUE]

enableRateEditing(allRows) ==
    [i \in 1..Len(allRows) |-> enableEditingForRateRow(allRows[i])]

normaliseEditableNumberText(v) == IF v >= 0 THEN v ELSE Blank

Codes(allRows) == [i \in 1..Len(allRows) |-> allRows[i].code]

RollupBeforeCalc(allRows, hierarchy) ==
    [calculated |-> allRows,
     rolled |-> applyRowCalculations(recomputeAllRollups(allRows, hierarchy))]

\* applyRowCalculations(all); recomputeAllRollups(all, hierarchy): the rows as
\* the derived pass left them and as the rollup pass left them
FullRecompute(allRows, hierarchy) ==
    LET calculated == applyRowCalculations(allRows)
    IN  [calculated |-> calculated,
         rolled |-> recomputeAllRollups(calculated, hierarchy)]

-----------------------------------------------------------------------------
(* Codes given to the code utilities *)

TradeSegs == 1..MaxTrade
SlotSegs == (0..MaxSlot) \cup {XSeg, R1}
AnySeg == TradeSegs \cup SlotSegs

SegsAt(k) ==
    IF k = 1 THEN TradeSegs
    ELSE IF k = 2 THEN TradeSegs \cup {R1}
    ELSE SlotSegs

CodesOfLen(n) == {c \in [1..n -> AnySeg] : \A k \in 1..n : c[k] \in SegsAt(k)}

AllCodes == UNION {CodesOfLen(n) : n \in 0..MaxSegs}

NoResult ==
    [done |-> FALSE, covers |-> FALSE, descendant |-> FALSE,
     base |-> EmptyCode, rate |-> FALSE]

-----------------------------------------------------------------------------
(* Idle values of the variables a specification does not use *)

IdleCodes ==
    /\ ca = EmptyCode /\ cb = EmptyCode /\ cres = NoResult
    /\ cc = EmptyCode /\ cord = <<>>
IdleHier == hcodes = <<>> /\ hidx = <<>>
IdleCalc == crow = <<>> /\ cout = <<>> /\ cagain = <<>> /\ vout = <<>>
IdlePage ==
    /\ data = <<>>
    /\ rows = <<>>
    /\ hier = <<>>
    /\ phase = "idle"
    /\ edits = 0
    /\ pre = <<>>
    /\ passes = 0
IdlePol == pdata = <<>> /\ pol = <<>>
IdleUi == urows = <<>> /\ uhier = <<>> /\ ui = <<>>
IdleOv ==
    /\ odata = <<>> /\ orows = <<>> /\ storage = <<>>
    /\ captured = <<>> /\ committed = {}
IdleBoot == served = <<>> /\ container = <<>> /\ fired = <<>> /\ boots = <<>>

-----------------------------------------------------------------------------
(* SpecCovers: the code utilities applied to every pair of codes *)

InitCovers ==
    /\ ca \in AllCodes
    /\ cb \in AllCodes
    /\ cres = NoResult
    /\ cc = EmptyCode
    /\ cord = <<>>
    /\ IdleHier /\ IdleCalc /\ IdlePage /\ IdlePol /\ IdleUi /\ IdleOv /\ IdleBoot

ApplyCovers ==
    /\ ~cres.done
    /\ cres' = [done |-> TRUE,
                covers |-> covers(ca, cb),
                descendant |-> isDescendant(ca, cb),
                base |-> stripRate(cb),
                rate |-> isRate(cb)]
    /\ UNCHANGED <<ca, cb, cc, cord, hierVars, calcVars, pageVars, polVars, uiVars,
                   ovVars, bootVars>>

NextCovers == ApplyCovers

SpecCovers == InitCovers /\ [][NextCovers]_vars

-----------------------------------------------------------------------------
(* SpecCalc: the derived calculation pass applied to every state of a row *)

QtyTexts == {Blank, BadText} \cup (0..MaxQty)
RateTexts == {Blank, 0, 105, 2000}
SubTexts == {Blank, BadText, 0, 105, 10000}
MkTexts == {Blank, BadText, 0, 10}
TotTexts == {Blank, 0, 500}

\* a cell tagged uploaded held text when it was rendered and holds text since
CalcRows ==
    {r \in [code : {<<1, 1, 1, 0>>}, qty : QtyTexts, rate : RateTexts,
            sub : SubTexts, mk : MkTexts, tot : TotTexts,
            upSub : BOOLEAN, upMk : BOOLEAN, upTot : BOOLEAN,
            editable : {FALSE}] :
        /\ r.upSub => r.sub # Blank
        /\ r.upTot => r.tot # Blank}

InitCalc ==
    /\ crow \in CalcRows
    /\ cout = <<>>
    /\ cagain = <<>>
    /\ vout = <<>>
    /\ IdleCodes /\ IdleHier /\ IdlePage /\ IdlePol /\ IdleUi /\ IdleOv /\ IdleBoot

ApplyCalc ==
    /\ cout = <<>>
    /\ cout' = applyRowCalculations(<<crow>>)[1]
    /\ UNCHANGED <<codeVars, hierVars, crow, cagain, vout, pageVars, polVars, uiVars,
                   ovVars, bootVars>>

\* a second run over the row the first run left, no edit in between
ReapplyCalc ==
    /\ cout # <<>>
    /\ cagain = <<>>
    /\ cagain' = applyRowCalculations(<<cout>>)[1]
    /\ UNCHANGED <<codeVars, hierVars, crow, cout, vout, pageVars, polVars, uiVars,
                   ovVars, bootVars>>

\* the value-based revision run on the row, then on what it left
ApplyCalcByValue ==
    /\ Len(vout) < 2
    /\ LET before == IF vout = <<>> THEN crow ELSE vout[Len(vout)]
       IN  vout' = Append(vout, applyRowCalculationsByValue(<<before>>)[1])
    /\ UNCHANGED <<codeVars, hierVars, crow, cout, cagain, pageVars, polVars, uiVars,
                   ovVars, bootVars>>

NextCalc == ApplyCalc \/ ReapplyCalc \/ ApplyCalcByValue

SpecCalc == InitCalc /\ [][NextCalc]_vars

-----------------------------------------------------------------------------
(* Spec: the page, from the loaded CSV through boot and committed edits *)

CsvRow(code, qty, rate, sub, mk, tot) ==
    [CODE |-> code, QTY |-> qty, RATE |-> rate,
     SUBTOTAL |-> sub, MARKUP |-> mk, TOTAL |-> tot]

\* the rows a CSV file is made of: headings (one of a shorter slot count),
\* a heading with an uploaded subtotal, priced leaves with and without
\* uploaded money, rate rows, the rate row ".R1", a row without a code
PagePool ==
    { CsvRow(<<1, 1, 0, 0>>, Blank, Blank, Blank, Blank, Blank),
      CsvRow(<<1, 1, 1>>, Blank, Blank, Blank, Blank, Blank),
      CsvRow(<<1, 1, 1, 0>>, Blank, Blank, Blank, Blank, Blank),
      CsvRow(<<1, 1, 1, 0>>, Blank, Blank, 5000, Blank, Blank),
      CsvRow(<<1, 1, 1, 0, R1>>, Blank, Blank, 10000, Blank, Blank),
      CsvRow(<<1, 1, 1, 1>>, 5, 2000, Blank, Blank, Blank),
      CsvRow(<<1, 1, 1, 1>>, 5, 2000, 10000, Blank, Blank),
      CsvRow(<<1, 1, 1, 1>>, Blank, Blank, Blank, Blank, 7000),
      CsvRow(<<1, 1, 1, 1, R1>>, 2, 1500, Blank, 10, Blank),
      CsvRow(<<1, 2, 1, 0, R1>>, 1, 400, Blank, Blank, 900),
      CsvRow(<<ESeg, R1>>, 1, 500, Blank, Blank, Blank),
      CsvRow(EmptyCode, 1, 100, 300, Blank, Blank) }

PageData == UNION {[1..n -> PagePool] : n \in 0..MaxPageRows}

\* what a user leaves in a rate row's quantity, rate and factor inputs
EditTriples == {<<3, 1000, Blank>>, <<0, 1000, 10>>}

Init ==
    /\ data \in PageData
    /\ rows = <<>>
    /\ hier = <<>>
    /\ phase = "idle"
    /\ edits = 0
    /\ pre = <<>>
    /\ passes = 0
    /\ IdleCodes /\ IdleHier /\ IdleCalc /\ IdlePol /\ IdleUi /\ IdleOv /\ IdleBoot

\* bootBoq once the CSV is fetched; a throw of buildHierarchyIndex is caught
\* and leaves the rendered rows as they are
Boot ==
    /\ phase = "idle"
    /\ LET all == renderFromCSV(data)
           hierarchy == buildHierarchyIndex(Codes(all))
           done == FullRecompute(enableRateEditing(all), hierarchy)
       IN  IF hierarchy.threw
           THEN /\ rows' = all
                /\ phase' = "failed"
                /\ UNCHANGED <<hier, pre, passes>>
           ELSE /\ pre' = done.calculated
                /\ rows' = done.rolled
                /\ hier' = hierarchy
                /\ phase' = "ready"
                /\ passes' = passes + 1
    /\ UNCHANGED <<codeVars, hierVars, calcVars, polVars, uiVars, data, edits,
                   ovVars, bootVars>>

\* blur or Enter on an input of rate row i, the inputs holding t
persistAndRefresh(i, t) ==
    LET edited == [rows EXCEPT ![i].qty = normaliseEditableNumberText(t[1]),
                               ![i].rate = normaliseEditableNumberText(t[2]),
                               ![i].mk = normaliseEditableNumberText(t[3])]
        done == FullRecompute(edited, hier)
    IN  /\ pre' = done.calculated
        /\ rows' = done.rolled
        /\ passes' = passes + 1

Commit ==
    /\ phase = "ready"
    /\ edits < MaxEdits
    /\ \E i \in 1..Len(rows) :
          /\ rows[i].editable
          /\ \E t \in EditTriples \cup {<<rows[i].qty, rows[i].rate, rows[i].mk>>} :
                persistAndRefresh(i, t)
    /\ edits' = edits + 1
    /\ UNCHANGED <<codeVars, hierVars, calcVars, polVars, uiVars, data, hier, phase,
                   ovVars, bootVars>>

Next == Boot \/ Commit

Spec == Init /\ [][Next]_vars

-----------------------------------------------------------------------------
(* C1, C2 *)

Ready == phase = "ready"

\* the amount a cell shows, in cents; nothing for blank or unparseable text
Shown(text) == IF text >= 0 THEN text ELSE 0

RECURSIVE SumSeq(_, _)
SumSeq(seq, n) == IF n = 0 THEN 0 ELSE seq[n] + SumSeq(seq, n - 1)

\* row r lies within the node at row n
LiesWithin(r, n) ==
    /\ rows[r].code # EmptyCode
    /\ \/ stripRate(rows[r].code) = rows[n].code
       \/ isDescendant(rows[n].code, stripRate(rows[r].code))

CarriesUploadedMoney(r) == rows[r].upSub \/ rows[r].upTot

\* row r as the pass found it when it summed the node at row n: the nodes of
\* earlier rows were rolled up already, all other rows were not yet touched
AsScanned(r, n) == IF IsNode(rows[r].code) /\ r < n THEN rows[r] ELSE pre[r]

NonRateShare(n) ==
    [r \in 1..Len(rows) |->
        IF LiesWithin(r, n) /\ ~isRate(rows[r].code) /\ CarriesUploadedMoney(r)
        THEN [sub |-> Shown(AsScanned(r, n).sub), tot |-> Shown(AsScanned(r, n).tot)]
        ELSE [sub |-> 0, tot |-> 0]]

RateShare(n) ==
    [r \in 1..Len(rows) |->
        IF LiesWithin(r, n) /\ isRate(rows[r].code)
        THEN [sub |-> Shown(rows[r].sub), tot |-> Shown(rows[r].tot)]
        ELSE [sub |-> 0, tot |-> 0]]

SubOf(shares) == [r \in 1..Len(shares) |-> shares[r].sub]
TotOf(shares) == [r \in 1..Len(shares) |-> shares[r].tot]

ExampleHeading == CsvRow(<<1, 1, 1, 0>>, Blank, Blank, Blank, Blank, Blank)
ExampleRate == CsvRow(<<1, 1, 1, 0, R1>>, Blank, Blank, 10000, Blank, Blank)
ExampleComputed == CsvRow(<<1, 1, 1, 1>>, 5, 2000, Blank, Blank, Blank)
ExampleUploaded == CsvRow(<<1, 1, 1, 1>>, 5, 2000, 10000, Blank, Blank)

\* C1: after a rollup pass every node's subtotal and total are the sums over
\* the rate rows within it plus the non-rate rows within it that carry an
\* uploaded subtotal or total, and no other non-rate row; so 1.1.1.0 rolls up
\* to 100 over [1.1.1.0, 1.1.1.0.R1 = 100, 1.1.1.1 = 5 x 20 computed] and to
\* 200 when 1.1.1.1's subtotal 100 is uploaded.
C1_UploadedOnly ==
    Ready =>
        /\ \A n \in 1..Len(rows) :
              IsNode(rows[n].code) =>
                  /\ rows[n].sub = SumSeq(SubOf(RateShare(n)), Len(rows))
                                    + SumSeq(SubOf(NonRateShare(n)), Len(rows))
                  /\ rows[n].tot = SumSeq(TotOf(RateShare(n)), Len(rows))
                                    + SumSeq(TotOf(NonRateShare(n)), Len(rows))
        /\ data = <<ExampleHeading, ExampleRate, ExampleComputed>> =>
              rows[1].sub = 10000
        /\ data = <<ExampleHeading, ExampleRate, ExampleUploaded>> =>
              rows[1].sub = 20000

C1_Witness ==
    /\ Ready
    /\ data = <<ExampleHeading, ExampleRate, ExampleUploaded>>
    /\ rows[1].sub = 20000
    /\ rows[3].upSub

\* C2: after a rollup pass every node's subtotal and total hold the subtotal
\* and total of every rate row whose base code is the node's code or a
\* descendant of it, at whatever depth; they are exactly the sum of those
\* when no non-rate row within the node carries uploaded money.
C2_RatesReachAncestors ==
    Ready =>
        \A n \in 1..Len(rows) :
            IsNode(rows[n].code) =>
                /\ rows[n].sub >= SumSeq(SubOf(RateShare(n)), Len(rows))
                /\ rows[n].tot >= SumSeq(TotOf(RateShare(n)), Len(rows))
                /\ (\A r \in 1..Len(rows) :
                        LiesWithin(r, n) /\ ~isRate(rows[r].code)
                            => ~CarriesUploadedMoney(r))
                    => /\ rows[n].sub = SumSeq(SubOf(RateShare(n)), Len(rows))
                       /\ rows[n].tot = SumSeq(TotOf(RateShare(n)), Len(rows))

\* a rate row priced by the derived pass, attached to a child of the root:
\* its subtotal and total are the root's
C2_Witness ==
    /\ Ready
    /\ \E n, r \in 1..Len(rows) :
          /\ IsNode(rows[n].code)
          /\ isRate(rows[r].code)
          /\ stripRate(rows[r].code) \in DOMAIN hier.depthOf
          /\ hier.depthOf[rows[n].code] = 0
          /\ hier.depthOf[stripRate(rows[r].code)] >= 1
          /\ isDescendant(rows[n].code, stripRate(rows[r].code))
          /\ rows[r].sub = 3000 /\ rows[r].tot = 3300
          /\ rows[n].sub = 3000 /\ rows[n].tot = 3300

-----------------------------------------------------------------------------
(* C3 *)

\* C3 as stated: a second rollup pass with no edit in between leaves every
\* row's quantity, subtotal and total as the first pass left them.
C3_AsStated == Ready => recomputeAllRollups(rows, hier) = rows

-----------------------------------------------------------------------------
(* C4 *)

\* C4 as stated: a subtotal or total tagged uploaded at load time holds its
\* load-time value after any sequence of derived passes, rollup passes and
\* edit commits.
C4_AsStated ==
    Ready =>
        \A i \in 1..Len(rows) :
            /\ rows[i].upSub => rows[i].sub = data[i].SUBTOTAL
            /\ rows[i].upTot => rows[i].tot = data[i].TOTAL

-----------------------------------------------------------------------------
(* C10 *)

Calculated == cout # <<>>

Priced(r) == r.qty > 0 /\ r.rate > 0

SubtotalAvailable(r) == r.upSub \/ Priced(r)

\* the subtotal in cents that the total is derived from
SubtotalCents(r) == IF r.upSub THEN Shown(r.sub) ELSE r.qty * r.rate

\* a / b rounded to the nearest integer, halves up
Rounded(a, b) == (2 * a + b) \div (2 * b)

\* C10: after applyRowCalculations an uploaded subtotal is unchanged,
\* otherwise subtotal = quantity x rate when both are non-zero and blank when
\* either is zero or absent; an uploaded total is unchanged, otherwise, when a
\* subtotal is available, total = subtotal x (1 + pct/100) if the markup has
\* parseable text and total = subtotal if the markup is blank, and total is
\* blank when no subtotal is available.
C10_DerivedPass ==
    Calculated =>
        /\ crow.upSub => cout.sub = crow.sub
        /\ (~crow.upSub /\ Priced(crow)) => cout.sub = crow.qty * crow.rate
        /\ (~crow.upSub /\ ~Priced(crow)) => cout.sub = Blank
        /\ crow.upTot => cout.tot = crow.tot
        /\ (~crow.upTot /\ SubtotalAvailable(crow) /\ crow.mk >= 0) =>
              cout.tot = Rounded(SubtotalCents(crow) * (100 + crow.mk), 100)
        /\ (~crow.upTot /\ SubtotalAvailable(crow) /\ crow.mk = Blank) =>
              cout.tot = SubtotalCents(crow)
        /\ (~crow.upTot /\ ~SubtotalAvailable(crow)) => cout.tot = Blank
        /\ [cout EXCEPT !.sub = crow.sub, !.tot = crow.tot] = crow

\* 2 x $1.05 at 10 percent: subtotal $2.10, total $2.31, over stale texts
C10_Witness ==
    /\ Calculated
    /\ ~crow.upSub /\ ~crow.upTot
    /\ crow.qty = 2 /\ crow.rate = 105 /\ crow.mk = 10
    /\ crow.sub = 10000 /\ crow.tot = 500
    /\ cout.sub = 210 /\ cout.tot = 231

-----------------------------------------------------------------------------
(* C6 *)

\* a slot of the parent equals the child's slot at the same index
SlotMatches(p, c, i) == i <= Len(c) /\ ~StrictNeq(p[i], c[i])

CoversAsSpecified(p, c) ==
    /\ tradePrefix(p) = tradePrefix(c)
    /\ \A i \in 1..Len(numericSlots(p)) :
          \/ numericSlots(p)[i] = 0
          \/ SlotMatches(numericSlots(p), numericSlots(c), i)

\* C6 as stated: covers(parent, child) holds if and only if both codes have
\* the same trade prefix and every slot of the parent is 0 or equals the
\* child's slot at that index, for all codes.
C6_AsStated == cres.done => (cres.covers <=> CoversAsSpecified(ca, cb))

\* C6 amended: for non-empty parent and child codes, covers(parent, child)
\* holds if and only if both have the same trade prefix and every slot of
\* the parent is 0 or equals the child's slot at that index (slots of the
\* child past the parent's length are unconstrained); covers is false when
\* either code is empty; 2.3.0.0 covers 2.3.5.7 and 2.3.9.1 and 2.3.5.0 does
\* not cover 2.3.9.1.
C6_CoversIff ==
    /\ cres.done =>
          /\ (ca # EmptyCode /\ cb # EmptyCode) =>
                (cres.covers <=> CoversAsSpecified(ca, cb))
          /\ (ca = EmptyCode \/ cb = EmptyCode) => ~cres.covers
          /\ tradePrefix(ca) # tradePrefix(cb) => ~cres.covers
    /\ covers(<<2, 3, 0, 0>>, <<2, 3, 5, 7>>)
    /\ covers(<<2, 3, 0, 0>>, <<2, 3, 9, 1>>)
    /\ ~covers(<<2, 3, 5, 0>>, <<2, 3, 9, 1>>)

\* a wildcard parent covering a more specific code of its trade
C6_Witness ==
    /\ cres.done /\ cres.covers
    /\ ca = <<1, 1, 0, 0>>
    /\ cb = <<1, 1, 1, 2>>

-----------------------------------------------------------------------------
(* SpecHier: the hierarchy builder applied to every sequence of row codes *)

\* "", 1, 1.1.1, 1.1.0.0, 1.1.1.0, 1.1.1.1, 1.1.1.1.R1, 1.2.1.0, 1.1.x.0, .R1
HierPool ==
    { EmptyCode, <<1>>, <<1, 1, 1>>, <<1, 1, 0, 0>>, <<1, 1, 1, 0>>,
      <<1, 1, 1, 1>>, <<1, 1, 1, 1, R1>>, <<1, 2, 1, 0>>, <<1, 1, XSeg, 0>>,
      <<ESeg, R1>> }

CodeSeqs == UNION {[1..n -> HierPool] : n \in 0..MaxRows}

InitHier ==
    /\ hcodes \in CodeSeqs
    /\ hidx = <<>>
    /\ IdleCodes /\ IdleCalc /\ IdlePage /\ IdlePol /\ IdleUi /\ IdleOv /\ IdleBoot

ApplyBuild ==
    /\ hidx = <<>>
    /\ hidx' = buildHierarchyIndex(hcodes)
    /\ UNCHANGED <<codeVars, hcodes, calcVars, pageVars, polVars, uiVars, ovVars, bootVars>>

NextHier == ApplyBuild

SpecHier == InitHier /\ [][NextHier]_vars

Built == hidx # <<>>

Distinct(codes) ==
    \A i, j \in 1..Len(codes) : codes[i] = codes[j] => i = j

Occurrences(seq, x) == Cardinality({i \in 1..Len(seq) : seq[i] = x})

\* the row of the first occurrence of a code
FirstRow(codes, c) == CHOOSE i \in 1..Len(codes) :
    codes[i] = c /\ \A j \in 1..Len(codes) : codes[j] = c => i <= j

-----------------------------------------------------------------------------
(* C5 *)

\* the prior non-rate rows of n's trade prefix that cover n
Qualifying(codes, n) ==
    {p \in 1..(n - 1) :
        /\ IsNode(codes[p])
        /\ tradePrefix(codes[p]) = tradePrefix(codes[n])
        /\ covers(codes[p], codes[n])}

Specificity(code) ==
    Cardinality({i \in 1..Len(numericSlots(code)) : numericSlots(code)[i] # 0})

\* highest specificity, ties to the largest row index
IsSelected(codes, n, p) ==
    /\ p \in Qualifying(codes, n)
    /\ \A q \in Qualifying(codes, n) :
          \/ Specificity(codes[q]) < Specificity(codes[p])
          \/ Specificity(codes[q]) = Specificity(codes[p]) /\ q <= p

\* C5: for a row sequence with pairwise distinct codes, parentOf(n.code) is,
\* for every non-rate row n, the code of the prior covering non-rate row of
\* the same trade prefix with the highest specificity, ties broken by the
\* largest index, and is null exactly when no such row exists.
C5_ParentSelection ==
    (Built /\ Distinct(hcodes)) =>
        \A n \in 1..Len(hcodes) :
            IsNode(hcodes[n]) =>
                /\ hcodes[n] \in DOMAIN hidx.parentOf
                /\ (hidx.parentOf[hcodes[n]] = Null) <=> (Qualifying(hcodes, n) = {})
                /\ \A p \in Qualifying(hcodes, n) :
                      IsSelected(hcodes, n, p) <=> (hidx.parentOf[hcodes[n]] = hcodes[p])

\* 1.1.1 and 1.1.1.0 tie on specificity before 1.1.1.1: the later row wins
C5_Witness ==
    /\ Built
    /\ hcodes = <<<<1, 1, 0, 0>>, <<1, 1, 1>>, <<1, 1, 1, 0>>, <<1, 1, 1, 1>>>>
    /\ hidx.parentOf[<<1, 1, 1, 1>>] = <<1, 1, 1, 0>>
    /\ hidx.parentOf[<<1, 1, 0, 0>>] = Null

-----------------------------------------------------------------------------
(* C7 *)

\* C7: after buildHierarchyIndex on any row sequence (duplicates allowed), no
\* non-rate code is its own parent, and in the index the build returns
\* depthOf(c) = 0 when parentOf(c) is null and depthOf(c) =
\* depthOf(parentOf(c)) + 1 otherwise.
C7_IndexInvariant ==
    Built =>
        /\ DOMAIN hidx.parentOf = NodeCodes(hcodes)
        /\ \A c \in DOMAIN hidx.parentOf : hidx.parentOf[c] # c
        /\ ~hidx.threw =>
              /\ DOMAIN hidx.depthOf = NodeCodes(hcodes)
              /\ \A c \in DOMAIN hidx.parentOf :
                    /\ hidx.parentOf[c] = Null => hidx.depthOf[c] = 0
                    /\ hidx.parentOf[c] # Null =>
                          /\ hidx.parentOf[c] \in DOMAIN hidx.depthOf
                          /\ hidx.depthOf[c] = hidx.depthOf[hidx.parentOf[c]] + 1

\* a repeated code whose earlier occurrence was the best candidate, beside a
\* chain of depth 2
C7_Witness ==
    /\ Built /\ ~hidx.threw
    /\ ~Distinct(hcodes)
    /\ \E n \in 1..Len(hcodes) :
          /\ IsNode(hcodes[n])
          /\ ScanCandidates(hcodes, n, 1, NoBest).parent = hcodes[n]
          /\ hidx.parentOf[hcodes[n]] = Null
    /\ \E c \in DOMAIN hidx.depthOf : hidx.depthOf[c] = 2

-----------------------------------------------------------------------------
(* C8 *)

\* following parentOf from c reaches a root
ReachesRoot(parentOf, c) == ChainEnds(parentOf, c, Cardinality(DOMAIN parentOf))

\* C8 as stated: for every row sequence, repeated codes and codes of different
\* slot counts included, following parentOf from any non-rate code reaches a
\* code whose parent is null (the parent map has no cycle) and the build runs
\* to completion.
C8_AsStated ==
    Built =>
        /\ \A c \in DOMAIN hidx.parentOf : ReachesRoot(hidx.parentOf, c)
        /\ ~hidx.threw

-----------------------------------------------------------------------------
(* C9 *)

InSeq(seq, x) == \E i \in 1..Len(seq) : seq[i] = x

\* C9 as stated: after buildHierarchyIndex on any row sequence, for all
\* non-rate codes p and c, c occurs in childrenOf(p) if and only if
\* parentOf(c) = p, each child occurs once, and children are in row order.
C9_AsStated ==
    Built =>
        \A p \in DOMAIN hidx.childrenOf :
            /\ \A c \in DOMAIN hidx.parentOf :
                  InSeq(hidx.childrenOf[p], c) <=> (hidx.parentOf[c] = p)
            /\ \A c \in DOMAIN hidx.parentOf :
                  Occurrences(hidx.childrenOf[p], c) <= 1
            /\ \A i, j \in 1..Len(hidx.childrenOf[p]) :
                  i < j => FirstRow(hcodes, hidx.childrenOf[p][i])
                             < FirstRow(hcodes, hidx.childrenOf[p][j])

-----------------------------------------------------------------------------
(* C11 *)

CalculatedTwice == cout # <<>> /\ cagain # <<>>

\* C11: for every state of a row, a second run of applyRowCalculations with
\* no edit in between leaves subtotal and total as the first run left them,
\* and no run changes a field tagged uploaded; the same holds of the
\* value-based revision, where a field counts as uploaded when it holds text.
C11_CalcIdempotent ==
    /\ CalculatedTwice =>
          /\ cagain = cout
          /\ crow.upSub => cout.sub = crow.sub /\ cagain.sub = crow.sub
          /\ crow.upTot => cout.tot = crow.tot /\ cagain.tot = crow.tot
    /\ \A k \in 1..Len(vout) :
          /\ crow.sub # Blank => vout[k].sub = crow.sub
          /\ crow.tot # Blank => vout[k].tot = crow.tot
          /\ k > 1 => vout[k] = vout[k - 1]

\* both revisions ran twice on a priced row with a stale uploaded total: each
\* derived the subtotal $2.10 once and kept the total
C11_Witness ==
    /\ CalculatedTwice
    /\ Len(vout) = 2
    /\ crow.qty = 2 /\ crow.rate = 105 /\ crow.mk = 10
    /\ ~crow.upSub /\ crow.sub = 10000
    /\ crow.upTot /\ crow.tot = 500
    /\ cout.sub = 210 /\ cagain.sub = 210 /\ cagain.tot = 500
    /\ vout[2].sub = 10000 /\ vout[2].tot = 500

-----------------------------------------------------------------------------
(* ROLLUPS OF THE OTHER REVISIONS *)

\* (m.get(code)?.length || 0)
ListLength(m, code) == IF code \in DOMAIN m THEN Len(m[code]) ELSE 0

\* the true-leaf revision (public/index.js; the second revision in
\* src/unnamed/part_000 tests !hasChildren, which is the same condition)
isTrueLeafNonRate(code, hierarchy) ==
    IF ~Truthy(code) \/ isRate(code) THEN FALSE
    ELSE /\ ~(ListLength(hierarchy.childrenOf, code) > 0)
         /\ ~(ListLength(hierarchy.rateChildrenOf, code) > 0)

QtyTextRaw(qty) == qty

\* qty ? String(qty) : ""
QtyText(qty) == IF qty # 0 THEN qty ELSE Blank

RECURSIVE SumRowsTrueLeaf(_, _, _, _, _)
SumRowsTrueLeaf(allRows, hierarchy, nCode, i, acc) ==
    IF i > Len(allRows) THEN acc
    ELSE IF /\ Truthy(allRows[i].code)
            /\ isRate(allRows[i].code) \/ isTrueLeafNonRate(allRows[i].code, hierarchy)
            /\ within(nCode, stripRate(allRows[i].code))
         THEN SumRowsTrueLeaf(allRows, hierarchy, nCode, i + 1,
                  [qty |-> acc.qty + parseNumber(allRows[i].qty),
                   subtotal |-> acc.subtotal + parseMoney(allRows[i].sub),
                   total |-> acc.total + parseMoney(allRows[i].tot)])
    ELSE SumRowsTrueLeaf(allRows, hierarchy, nCode, i + 1, acc)

RECURSIVE RollupLoopTrueLeaf(_, _, _)
RollupLoopTrueLeaf(allRows, hierarchy, n) ==
    IF n > Len(allRows) THEN allRows
    ELSE IF ~IsNode(allRows[n].code) THEN RollupLoopTrueLeaf(allRows, hierarchy, n + 1)
    ELSE LET s == SumRowsTrueLeaf(allRows, hierarchy, allRows[n].code, 1,
                                  [qty |-> 0, subtotal |-> 0, total |-> 0])
         IN  RollupLoopTrueLeaf([allRows EXCEPT ![n].qty = QtyText(s.qty),
                                                ![n].sub = formatMoney(s.subtotal),
                                                ![n].tot = formatMoney(s.total)],
                                hierarchy, n + 1)

recomputeAllRollupsTrueLeaf(allRows, hierarchy) ==
    RollupLoopTrueLeaf(allRows, hierarchy, 1)

uploadedMoneyOnly(r) == r.upSub \/ r.upTot

\* the value-based revision (public/boq/index.js)
rowHasValues(r) ==
    parseNumber(r.qty) # 0 \/ parseMoney(r.sub) # 0 \/ parseMoney(r.tot) # 0

\* allRows.find(row => row.dataset.code === code); 0 when there is none
RECURSIVE FindRow(_, _, _)
FindRow(allRows, code, i) ==
    IF i > Len(allRows) THEN 0
    ELSE IF allRows[i].code = code THEN i
    ELSE FindRow(allRows, code, i + 1)

\* the loop over a node's direct rate children, from the k-th on
RECURSIVE SumDirectRates(_, _, _, _)
SumDirectRates(allRows, rateChildren, k, acc) ==
    IF k > Len(rateChildren) THEN acc
    ELSE LET i == FindRow(allRows, rateChildren[k], 1)
         IN  IF i = 0 THEN SumDirectRates(allRows, rateChildren, k + 1, acc)
             ELSE SumDirectRates(allRows, rateChildren, k + 1,
                      [subtotal |-> acc.subtotal + parseMoney(allRows[i].sub),
                       total |-> acc.total + parseMoney(allRows[i].tot)])

\* the fallback loop over all rows, from row i on
RECURSIVE SumRowsByValue(_, _, _, _)
SumRowsByValue(allRows, nCode, i, acc) ==
    IF i > Len(allRows) THEN acc
    ELSE IF /\ Truthy(allRows[i].code)
            /\ isRate(allRows[i].code) \/ rowHasValues(allRows[i])
            /\ within(nCode, stripRate(allRows[i].code))
         THEN SumRowsByValue(allRows, nCode, i + 1,
                  [subtotal |-> acc.subtotal + parseMoney(allRows[i].sub),
                   total |-> acc.total + parseMoney(allRows[i].tot)])
    ELSE SumRowsByValue(allRows, nCode, i + 1, acc)

RECURSIVE RollupLoopByValue(_, _, _)
RollupLoopByValue(allRows, hierarchy, n) ==
    IF n > Len(allRows) THEN allRows
    ELSE IF ~IsNode(allRows[n].code) THEN RollupLoopByValue(allRows, hierarchy, n + 1)
    ELSE LET nCode == allRows[n].code
             rateChildren == IF nCode \in DOMAIN hierarchy.rateChildrenOf
                             THEN hierarchy.rateChildrenOf[nCode] ELSE <<>>
             zero == [subtotal |-> 0, total |-> 0]
             s == IF Len(rateChildren) > 0
                  THEN SumDirectRates(allRows, rateChildren, 1, zero)
                  ELSE SumRowsByValue(allRows, nCode, 1, zero)
         IN  RollupLoopByValue([allRows EXCEPT ![n].qty = Blank,
                                               ![n].sub = formatMoney(s.subtotal),
                                               ![n].tot = formatMoney(s.total)],
                               hierarchy, n + 1)

recomputeAllRollupsByValue(allRows, hierarchy) ==
    RollupLoopByValue(allRows, hierarchy, 1)

-----------------------------------------------------------------------------
(* SpecPolicies: one CSV file loaded by each revision *)

Policies == {"uploadedOnly", "trueLeaf", "valueBased"}

NotRun == [ran |-> FALSE, threw |-> FALSE, rows |-> <<>>]

InitPolicies ==
    /\ pdata \in PageData
    /\ pol = [p \in Policies |-> NotRun]
    /\ IdleCodes /\ IdleHier /\ IdleCalc /\ IdlePage /\ IdleUi /\ IdleOv /\ IdleBoot

\* a load up to the rollup pass; a throw of buildHierarchyIndex ends the
\* handler with the rows as rendered
Loaded(policy, rolled) ==
    LET hierarchy == buildHierarchyIndex(Codes(renderFromCSV(pdata)))
    IN  /\ ~pol[policy].ran
        /\ pol' = [pol EXCEPT ![policy] =
                     [ran |-> TRUE, threw |-> hierarchy.threw,
                      rows |-> IF hierarchy.threw THEN renderFromCSV(pdata)
                               ELSE rolled]]
        /\ UNCHANGED <<codeVars, hierVars, calcVars, pageVars, pdata, uiVars,
                       ovVars, bootVars>>

\* bootBoq of the first revision in src/unnamed/part_000
LoadUploadedOnly ==
    LET all == renderFromCSV(pdata)
        hierarchy == buildHierarchyIndex(Codes(all))
    IN  Loaded("uploadedOnly",
               FullRecompute(enableRateEditing(all), hierarchy).rolled)

\* the DOMContentLoaded handler of public/index.js: no derived pass
LoadTrueLeaf ==
    LET all == renderFromCSV(pdata)
        hierarchy == buildHierarchyIndex(Codes(all))
    IN  Loaded("trueLeaf", recomputeAllRollupsTrueLeaf(all, hierarchy))

\* the DOMContentLoaded handler of public/boq/index.js
LoadByValue ==
    LET all == renderFromCSV(pdata)
        hierarchy == buildHierarchyIndex(Codes(all))
    IN  Loaded("valueBased",
               recomputeAllRollupsByValue(applyRowCalculationsByValue(all), hierarchy))

NextPolicies == LoadUploadedOnly \/ LoadTrueLeaf \/ LoadByValue

SpecPolicies == InitPolicies /\ [][NextPolicies]_vars

RolledUp(policy) == pol # <<>> /\ pol[policy].ran /\ ~pol[policy].threw

PolicyHier == buildHierarchyIndex(Codes(renderFromCSV(pdata)))

-----------------------------------------------------------------------------
(* C12 *)

\* C12 as stated: after the rollup pass of any revision the quantity of every
\* non-rate row with a non-empty code is blank.
C12_AsStated ==
    \A p \in Policies :
        RolledUp(p) =>
            \A n \in 1..Len(pol[p].rows) :
                IsNode(pol[p].rows[n].code) => pol[p].rows[n].qty = Blank

Rendered == renderFromCSV(pdata)

\* row r is summed into the quantity of the true-leaf revision's nodes: a rate
\* row, or a non-rate row without children and without attached rate rows
CarriesQuantity(r) ==
    \/ isRate(Rendered[r].code)
    \/ /\ IsNode(Rendered[r].code)
       /\ PolicyHier.childrenOf[Rendered[r].code] = <<>>
       /\ \A j \in 1..Len(Rendered) :
             isRate(Rendered[j].code) => stripRate(Rendered[j].code) # Rendered[r].code

\* the quantity row r showed when the node at row n was summed
QtyAsScanned(r, n) ==
    IF IsNode(Rendered[r].code) /\ r < n
    THEN pol["trueLeaf"].rows[r].qty
    ELSE Rendered[r].qty

QtyShare(n) ==
    [r \in 1..Len(Rendered) |->
        IF /\ Rendered[r].code # EmptyCode
           /\ \/ stripRate(Rendered[r].code) = Rendered[n].code
              \/ isDescendant(Rendered[n].code, stripRate(Rendered[r].code))
           /\ CarriesQuantity(r)
        THEN Shown(QtyAsScanned(r, n))
        ELSE 0]

\* C12 amended: after the rollup pass of the uploaded-only revision and of
\* the value-based revision the quantity of every non-rate row with a
\* non-empty code is blank; after the rollup pass of the true-leaf revision
\* it is the sum of the quantities of the rate rows and childless non-rate
\* rows within the node, and blank only when that sum is zero.
C12_QuantityByRevision ==
    /\ \A p \in {"uploadedOnly", "valueBased"} :
          RolledUp(p) =>
              \A n \in 1..Len(pol[p].rows) :
                  IsNode(pol[p].rows[n].code) => pol[p].rows[n].qty = Blank
    /\ RolledUp("trueLeaf") =>
          \A n \in 1..Len(Rendered) :
              IsNode(Rendered[n].code) =>
                  LET sum == SumSeq(QtyShare(n), Len(Rendered))
                  IN  pol["trueLeaf"].rows[n].qty = IF sum = 0 THEN Blank ELSE sum

\* a heading over a priced leaf and its rate row: blank in two revisions, the
\* rate row's quantity 2 in the true-leaf revision
C12_Witness ==
    /\ \A p \in Policies : RolledUp(p)
    /\ Len(pdata) = 3
    /\ pdata[1].CODE = <<1, 1, 1, 0>> /\ pdata[1].QTY = Blank
    /\ pdata[2].CODE = <<1, 1, 1, 1>> /\ pdata[2].QTY = 5
    /\ pdata[3].CODE = <<1, 1, 1, 1, R1>> /\ pdata[3].QTY = 2
    /\ pol["uploadedOnly"].rows[1].qty = Blank
    /\ pol["valueBased"].rows[1].qty = Blank
    /\ pol["trueLeaf"].rows[1].qty = 2

-----------------------------------------------------------------------------
(* C20 *)

\* 1.1.1.0 with an uploaded subtotal of $50, 1.1.1.1 priced 5 x $20, and
\* 1.1.1.1.R1 priced 2 x $15 at 10 percent
PolicyExample ==
    << CsvRow(<<1, 1, 1, 0>>, Blank, Blank, 5000, Blank, Blank),
       CsvRow(<<1, 1, 1, 1>>, 5, 2000, Blank, Blank, Blank),
       CsvRow(<<1, 1, 1, 1, R1>>, 2, 1500, Blank, 10, Blank) >>

\* C20: on the rows of PolicyExample the uploaded-only, true-leaf and
\* value-based revisions leave three different subtotals on the node 1.1.1.0:
\* $80 (its own uploaded $50 and the rate row's $30), $0 (no derived pass, so
\* the rate row has no subtotal) and $180 (its own $50, the leaf's derived
\* $100 and the rate row's $30).
C20_PoliciesDiffer ==
    (pdata = PolicyExample /\ \A p \in Policies : RolledUp(p)) =>
        /\ pol["uploadedOnly"].rows[1].sub # pol["trueLeaf"].rows[1].sub
        /\ pol["uploadedOnly"].rows[1].sub # pol["valueBased"].rows[1].sub
        /\ pol["trueLeaf"].rows[1].sub # pol["valueBased"].rows[1].sub

C20_Witness ==
    /\ pdata = PolicyExample
    /\ \A p \in Policies : RolledUp(p)
    /\ pol["uploadedOnly"].rows[1].sub = 8000
    /\ pol["trueLeaf"].rows[1].sub = 0
    /\ pol["valueBased"].rows[1].sub = 18000

-----------------------------------------------------------------------------
(* C13 *)

\* the quantity, rate and factor a row holds
Inputs(r) == <<r.qty, r.rate, r.mk>>

\* C13: a completed load runs one full recompute and every committed edit
\* runs one more; in each the rollup pass receives the rows as the derived
\* pass left them for the inputs of the latest commit: their derived
\* subtotals and totals are those a derived pass computes from them, the rate
\* rows hold the committed inputs, and the displayed rows are the rollup of
\* exactly those rows.
C13_CalcBeforeRollup ==
    Ready =>
        /\ passes = 1 + edits
        /\ applyRowCalculations(pre) = pre
        /\ Len(pre) = Len(rows)
        /\ \A i \in 1..Len(rows) :
              isRate(rows[i].code) =>
                  /\ Inputs(pre[i]) = Inputs(rows[i])
                  /\ pre[i] = rows[i]
        /\ rows = recomputeAllRollups(pre, hier)

\* the rate row 1.1.1.1.R1 re-priced to 3 x $10: the second recompute derived
\* $30 and rolled it up into a node
C13_Witness ==
    /\ Ready
    /\ edits = 1 /\ passes = 2
    /\ \E i, n \in 1..Len(rows) :
          /\ rows[i].code = <<1, 1, 1, 1, R1>>
          /\ data[i].QTY = 2
          /\ rows[i].qty = 3 /\ rows[i].rate = 1000
          /\ rows[i].sub = 3000 /\ rows[i].tot = 3000
          /\ IsNode(rows[n].code)
          /\ LiesWithin(i, n)
          /\ rows[n].sub = 3000

-----------------------------------------------------------------------------
(* C14 *)

\* fewer than two segments, or a slot that is not a number
Malformed(code) ==
    /\ code # EmptyCode
    /\ \/ Len(stripRate(code)) < 2
       \/ \E i \in 1..Len(numericSlots(code)) : numericSlots(code)[i] = NaN

\* C14 as stated: a row whose code is malformed neither covers nor is covered
\* by any other code, and buildHierarchyIndex makes it a root without
\* children.
C14_AsStated ==
    Built =>
        \A n \in 1..Len(hcodes) :
            (IsNode(hcodes[n]) /\ Malformed(hcodes[n])) =>
                /\ \A k \in 1..Len(hcodes) :
                      hcodes[k] # hcodes[n] =>
                          /\ ~covers(hcodes[n], hcodes[k])
                          /\ ~covers(hcodes[k], hcodes[n])
                /\ hidx.parentOf[hcodes[n]] = Null
                /\ hidx.childrenOf[hcodes[n]] = <<>>

-----------------------------------------------------------------------------
(* C15 *)

HasCode(r) == r.code # EmptyCode

NonEmpty(code) == code # EmptyCode

-----------------------------------------------------------------------------
(* C16 *)

RowsWithCode(codes, c) == Cardinality({i \in 1..Len(codes) : codes[i] = c})

\* C16: after buildHierarchyIndex every rate row's code is listed in
\* rateChildrenOf(baseCode(its code)), once per row, and in no other entry,
\* whether or not a row with the base code exists; every member of a
\* rateChildrenOf list is the code of a rate row; rate codes are no keys of
\* parentOf, childrenOf or depthOf and no members of a childrenOf list.
C16_RateAttachment ==
    Built =>
        /\ \A n \in 1..Len(hcodes) :
              isRate(hcodes[n]) =>
                  /\ stripRate(hcodes[n]) \in DOMAIN hidx.rateChildrenOf
                  /\ Occurrences(hidx.rateChildrenOf[stripRate(hcodes[n])], hcodes[n])
                        = RowsWithCode(hcodes, hcodes[n])
                  /\ \A b \in DOMAIN hidx.rateChildrenOf :
                        b # stripRate(hcodes[n]) =>
                            ~InSeq(hidx.rateChildrenOf[b], hcodes[n])
        /\ \A b \in DOMAIN hidx.rateChildrenOf :
              \A k \in 1..Len(hidx.rateChildrenOf[b]) :
                  /\ isRate(hidx.rateChildrenOf[b][k])
                  /\ InSeq(hcodes, hidx.rateChildrenOf[b][k])
        /\ \A c \in DOMAIN hidx.parentOf \cup DOMAIN hidx.childrenOf
                        \cup DOMAIN hidx.depthOf : ~isRate(c)
        /\ \A p \in DOMAIN hidx.childrenOf :
              \A k \in 1..Len(hidx.childrenOf[p]) : ~isRate(hidx.childrenOf[p][k])

\* 1.1.1.1.R1 twice without a row 1.1.1.1: the entry is created for it
C16_Witness ==
    /\ Built
    /\ ~InSeq(hcodes, <<1, 1, 1, 1>>)
    /\ RowsWithCode(hcodes, <<1, 1, 1, 1, R1>>) = 2
    /\ InSeq(hcodes, <<1, 1, 1, 0>>)
    /\ <<1, 1, 1, 1>> \in DOMAIN hidx.rateChildrenOf
    /\ hidx.rateChildrenOf[<<1, 1, 1, 1>>] = <<<<1, 1, 1, 1, R1>>, <<1, 1, 1, 1, R1>>>>
    /\ <<1, 1, 1, 1>> \notin DOMAIN hidx.parentOf

-----------------------------------------------------------------------------
(* SpecOrder: covers among three well-formed codes of one trade prefix *)

\* the codes 1.1, 1.1.s, 1.1.s.t with numeric slots, and their rate codes
OrderBases ==
    UNION {{<<1, 1>> \o sl : sl \in [1..n -> 0..MaxSlot]} : n \in 0..2}

OrderPool == OrderBases \cup {b \o <<R1>> : b \in OrderBases}

InitOrder ==
    /\ ca \in OrderPool
    /\ cb \in OrderPool
    /\ cc \in OrderPool
    /\ cres = NoResult
    /\ cord = <<>>
    /\ IdleHier /\ IdleCalc /\ IdlePage /\ IdlePol /\ IdleUi /\ IdleOv /\ IdleBoot

ApplyOrder ==
    /\ cord = <<>>
    /\ cord' = [aa |-> covers(ca, ca),
                ab |-> covers(ca, cb),
                ba |-> covers(cb, ca),
                bc |-> covers(cb, cc),
                ac |-> covers(ca, cc)]
    /\ UNCHANGED <<ca, cb, cc, cres, hierVars, calcVars, pageVars, polVars, uiVars,
                   ovVars, bootVars>>

NextOrder == ApplyOrder

SpecOrder == InitOrder /\ [][NextOrder]_vars

Ordered == cord # <<>>

-----------------------------------------------------------------------------
(* C18 *)

\* C18 as stated: on well-formed codes of one trade prefix covers is
\* reflexive, antisymmetric (covers(a, b) and covers(b, a) imply a = b) and
\* transitive.
C18_AsStated ==
    Ordered =>
        /\ cord.aa
        /\ (cord.ab /\ cord.ba) => ca = cb
        /\ (cord.ab /\ cord.bc) => cord.ac

\* the slots of a and b agree wherever both have one, and are 0 beyond
SameUpToZeros(a, b) ==
    LET p == numericSlots(a)
        c == numericSlots(b)
    IN  /\ \A i \in 1..Len(p) : IF i <= Len(c) THEN p[i] = c[i] ELSE p[i] = 0
        /\ \A i \in 1..Len(c) : IF i <= Len(p) THEN p[i] = c[i] ELSE c[i] = 0

\* C18 amended: on well-formed codes of one trade prefix covers is reflexive
\* and transitive; covers(a, b) and covers(b, a) hold together exactly when
\* the slots of a and b agree at every common index and are 0 beyond it, so
\* they imply a = b for codes that are no rate codes and have the same number
\* of slots, but not for a code and its rate codes or for 1.1.1 and 1.1.1.0.
C18_Preorder ==
    Ordered =>
        /\ cord.aa
        /\ (cord.ab /\ cord.bc) => cord.ac
        /\ (cord.ab /\ cord.ba) <=> SameUpToZeros(ca, cb)
        /\ (cord.ab /\ cord.ba /\ ~isRate(ca) /\ ~isRate(cb) /\ Len(ca) = Len(cb))
              => ca = cb

\* 1.1.1 and 1.1.1.0.R1 cover each other and 1.1.1.2
C18_Witness ==
    /\ Ordered
    /\ ca = <<1, 1, 1>> /\ cb = <<1, 1, 1, 0, R1>> /\ cc = <<1, 1, 1, 2>>
    /\ cord.aa /\ cord.ab /\ cord.ba /\ cord.bc /\ cord.ac

-----------------------------------------------------------------------------
(* C19 *)

\* C19: whenever covers(p, c) holds for codes p # c, every non-zero slot of p
\* is matched by an equal, non-zero slot of c at the same index, and
\* specificity(p) <= specificity(c).
C19_SpecificityMonotone ==
    (cres.done /\ cres.covers /\ ca # cb) =>
        /\ \A i \in 1..Len(numericSlots(ca)) :
              numericSlots(ca)[i] # 0 =>
                  /\ i <= Len(numericSlots(cb))
                  /\ numericSlots(cb)[i] = numericSlots(ca)[i]
                  /\ numericSlots(cb)[i] # 0
                  /\ numericSlots(cb)[i] # NaN
        /\ nonZeroCount(ca) <= nonZeroCount(cb)

\* 1.1.1.0 covers 1.1.1.2: one non-zero slot under two
C19_Witness ==
    /\ cres.done /\ cres.covers
    /\ ca = <<1, 1, 1, 0>> /\ cb = <<1, 1, 1, 2>>
    /\ nonZeroCount(ca) = 1 /\ nonZeroCount(cb) = 2

-----------------------------------------------------------------------------
(* COLLAPSE AND EXPAND *)

\* CONFIG.COLLAPSE_ICON, the right-pointing triangle, and CONFIG.EXPAND_ICON,
\* the down-pointing one; a row without toggle has no icon
COLLAPSE_ICON == "right"
EXPAND_ICON == "down"
NoIcon == ""

\* a row element as rendered: no inline display, no state class, no icon
RenderedRow == [display |-> "", classes |-> {}, icon |-> NoIcon]

hasChildren(code, hierarchy) ==
    IF ~Truthy(code) \/ isRate(code) THEN FALSE
    ELSE \/ ListLength(hierarchy.childrenOf, code) > 0
         \/ ListLength(hierarchy.rateChildrenOf, code) > 0

\* (m.get(code) || [])
ListOf(m, code) == IF code \in DOMAIN m THEN m[code] ELSE <<>>

\* allRows.find(r => r.dataset.code === code); 0 when there is none
RECURSIVE FindCode(_, _, _)
FindCode(codes, code, i) ==
    IF i > Len(codes) THEN 0
    ELSE IF codes[i] = code THEN i
    ELSE FindCode(codes, code, i + 1)

\* el.style.display = d on the first row with each of the codes, from the
\* k-th code on
RECURSIVE SetDisplay(_, _, _, _, _)
SetDisplay(view, codes, list, k, d) ==
    IF k > Len(list) THEN view
    ELSE LET i == FindCode(codes, list[k], 1)
         IN  SetDisplay(IF i = 0 THEN view ELSE [view EXCEPT ![i].display = d],
                        codes, list, k + 1, d)

Collapsed(row) == [row EXCEPT !.classes = (@ \cup {"collapsed"}) \ {"expanded"}]

Expanded(row) == [row EXCEPT !.classes = (@ \cup {"expanded"}) \ {"collapsed"}]

\* the listed rows hidden and collapsed, from the k-th code on
RECURSIVE HideListed(_, _, _, _)
HideListed(view, codes, list, k) ==
    IF k > Len(list) THEN view
    ELSE LET i == FindCode(codes, list[k], 1)
         IN  HideListed(IF i = 0 THEN view
                        ELSE [view EXCEPT ![i] = Collapsed([@ EXCEPT !.display = "none"])],
                        codes, list, k + 1)

\* a hideSubtree that stops at the immediate children
hideImmediateOnly(code, view, codes, hierarchy, depth) ==
    [view |-> HideListed(SetDisplay(view, codes,
                                    ListOf(hierarchy.rateChildrenOf, code), 1, "none"),
                         codes, ListOf(hierarchy.childrenOf, code), 1),
     threw |-> FALSE]

\* hideSubtree and its loop over the children from the k-th on; depth counts
\* the nested calls, and a call nested deeper than there are rows never
\* returns: the stack overflows and the handler ends where it is
RECURSIVE hideSubtree(_, _, _, _, _)
RECURSIVE HideChildren(_, _, _, _, _, _)
hideSubtree(code, view, codes, hierarchy, depth) ==
    IF depth > Len(codes) + 1 THEN [view |-> view, threw |-> TRUE]
    ELSE HideChildren(ListOf(hierarchy.childrenOf, code), 1,
                      SetDisplay(view, codes, ListOf(hierarchy.rateChildrenOf, code),
                                 1, "none"),
                      codes, hierarchy, depth)

HideChildren(children, k, view, codes, hierarchy, depth) ==
    IF k > Len(children) THEN [view |-> view, threw |-> FALSE]
    ELSE LET i == FindCode(codes, children[k], 1)
             hidden == IF i = 0 THEN view
                       ELSE [view EXCEPT ![i] = Collapsed([@ EXCEPT !.display = "none"])]
             below == hideSubtree(children[k], hidden, codes, hierarchy, depth + 1)
         IN  IF below.threw THEN below
             ELSE HideChildren(children, k + 1, below.view, codes, hierarchy, depth)

showImmediateChildren(code, view, codes, hierarchy) ==
    SetDisplay(SetDisplay(view, codes, ListOf(hierarchy.childrenOf, code), 1, "grid"),
               codes, ListOf(hierarchy.rateChildrenOf, code), 1, "grid")

\* bootBoq's initial visibility of one row
InitialVisibility(code, hierarchy) ==
    IF ~Truthy(code) THEN RenderedRow
    ELSE IF isRate(code) THEN [RenderedRow EXCEPT !.display = "none"]
    ELSE IF hierarchy.parentOf[code] = Null
         THEN Collapsed([RenderedRow EXCEPT !.display = "grid"])
    ELSE Collapsed([RenderedRow EXCEPT !.display = "none"])

\* initBoqUI as far as the toggle goes: a non-rate row with children gets an
\* icon span showing its state
initBoqUI(view, codes, hierarchy) ==
    [i \in 1..Len(codes) |->
        IF Truthy(codes[i]) /\ ~isRate(codes[i]) /\ hasChildren(codes[i], hierarchy)
        THEN [view[i] EXCEPT !.icon = IF "expanded" \in view[i].classes
                                      THEN EXPAND_ICON ELSE COLLAPSE_ICON]
        ELSE view[i]]

-----------------------------------------------------------------------------
(* SpecUI: the rows of a page under clicks on their code cells *)

\* 1.1.0.0, 1.1.1, 1.1.1.0, 1.1.1.1, 1.1.1.0.R1, 1.1.1.1.R1, 1.2.1.0.R1
UiPool ==
    { <<1, 1, 0, 0>>, <<1, 1, 1>>, <<1, 1, 1, 0>>, <<1, 1, 1, 1>>,
      <<1, 1, 1, 0, R1>>, <<1, 1, 1, 1, R1>>, <<1, 2, 1, 0, R1>> }

UiSeqs == UNION {[1..n -> UiPool] : n \in 0..MaxRows}

InitUI ==
    /\ urows \in UiSeqs
    /\ uhier = <<>>
    /\ ui = <<>>
    /\ IdleCodes /\ IdleHier /\ IdleCalc /\ IdlePage /\ IdlePol /\ IdleOv /\ IdleBoot

\* bootBoq as far as the rows' display goes; when buildHierarchyIndex throws
\* the rows stay as rendered and get no click listeners
BootUI ==
    /\ uhier = <<>>
    /\ uhier' = buildHierarchyIndex(urows)
    /\ ui' = IF uhier'.threw THEN [i \in 1..Len(urows) |-> RenderedRow]
             ELSE initBoqUI([i \in 1..Len(urows) |->
                                InitialVisibility(urows[i], uhier')],
                            urows, uhier')
    /\ UNCHANGED <<codeVars, hierVars, calcVars, pageVars, polVars, urows, ovVars, bootVars>>

\* the click listener of row i's code cell; a row that is not displayed
\* cannot be clicked
ClickRow(i) ==
    /\ uhier # <<>>
    /\ ~uhier.threw
    /\ i \in 1..Len(urows)
    /\ ui[i].display # "none"
    /\ ~isRate(urows[i]) /\ hasChildren(urows[i], uhier)
    /\ ui' = IF "expanded" \in ui[i].classes
             THEN hideSubtree(urows[i],
                              [ui EXCEPT ![i] =
                                  [Collapsed(@) EXCEPT !.icon = COLLAPSE_ICON]],
                              urows, uhier, 1).view
             ELSE showImmediateChildren(urows[i],
                                        [ui EXCEPT ![i] =
                                            [Expanded(@) EXCEPT !.icon = EXPAND_ICON]],
                                        urows, uhier)
    /\ UNCHANGED <<codeVars, hierVars, calcVars, pageVars, polVars, urows, uhier,
                   ovVars, bootVars>>

Click == \E i \in 1..Len(urows) : ClickRow(i)

NextUI == BootUI \/ Click

SpecUI == InitUI /\ [][NextUI]_vars

-----------------------------------------------------------------------------
(* C17 *)

Booted == uhier # <<>> /\ ~uhier.threw

\* the codes reached from the codes in from by at most n steps along childrenOf
RECURSIVE Below(_, _)
Below(from, n) ==
    IF n = 0 THEN from
    ELSE Below(from \cup UNION {{ListOf(uhier.childrenOf, c)[k] :
                                    k \in 1..Len(ListOf(uhier.childrenOf, c))} :
                                c \in from},
               n - 1)

ChildCodes(code) ==
    {ListOf(uhier.childrenOf, code)[k] : k \in 1..Len(ListOf(uhier.childrenOf, code))}

\* the codes of the descendant subtree of code
SubtreeCodes(code) == Below(ChildCodes(code), Len(urows))

\* row j belongs to the subtree below code: a descendant, or a rate row
\* attached to code or to a descendant
RowBelow(j, code) ==
    IF isRate(urows[j])
    THEN stripRate(urows[j]) \in SubtreeCodes(code) \cup {code}
    ELSE urows[j] \in SubtreeCodes(code)

\* row j is an immediate child of code or a rate row attached to code
RowDirectlyBelow(j, code) ==
    IF isRate(urows[j])
    THEN stripRate(urows[j]) = code
    ELSE urows[j] \in ChildCodes(code)

\* what C17 says of a click on row i
ClickEffect(i) ==
    IF "expanded" \in ui[i].classes
    THEN \A j \in 1..Len(urows) : RowBelow(j, urows[i]) => ui'[j].display = "none"
    ELSE \A j \in 1..Len(urows) :
            /\ RowDirectlyBelow(j, urows[i]) => ui'[j].display = "grid"
            /\ (RowBelow(j, urows[i]) /\ ~RowDirectlyBelow(j, urows[i]))
                  => ui'[j].display = "none"
            /\ ~RowDirectlyBelow(j, urows[i]) => ui'[j].display = ui[j].display

\* C17 as stated: a click on an expanded row hides every row of its
\* descendant subtree and every rate row attached to it or to a descendant;
\* a click on a collapsed row shows its immediate non-rate children and its
\* directly attached rate rows and nothing else, deeper rows staying hidden.
C17_AsStated ==
    [][\A i \in 1..Len(urows) : ClickRow(i) => ClickEffect(i)]_vars

\* the same for pages whose rows have pairwise distinct codes
C17_DistinctCodes ==
    [][\A i \in 1..Len(urows) :
          (Distinct(urows) /\ ClickRow(i)) => ClickEffect(i)]_vars

-----------------------------------------------------------------------------
(* C30 *)

\* C30 as stated: the base code of any code is never itself a rate code:
\* isRate(stripRate(c)) is false for every code c, so stripRate is idempotent,
\* and the base of every rate code is a code that isDescendant can accept
\* under a code that covers it.
C30_AsStated ==
    cres.done =>
        /\ ~isRate(cres.base)
        /\ stripRate(cres.base) = cres.base
        /\ (cres.rate /\ covers(ca, cres.base) /\ stripRate(ca) # stripRate(cres.base))
              => isDescendant(ca, cres.base)

-----------------------------------------------------------------------------
(* C21 *)

\* the rows the value-based revision hands to its rollup pass
CalculatedByValue == applyRowCalculationsByValue(Rendered)

\* row r as the value-based pass found it when it summed the node at row n
ScannedByValue(r, n) ==
    IF IsNode(Rendered[r].code) /\ r < n
    THEN pol["valueBased"].rows[r]
    ELSE CalculatedByValue[r]

\* row r is a rate row, or a non-rate row carrying a non-zero quantity,
\* subtotal or total, that lies within the node at row n
CarriesValueWithin(r, n) ==
    /\ Rendered[r].code # EmptyCode
    /\ \/ stripRate(Rendered[r].code) = Rendered[n].code
       \/ isDescendant(Rendered[n].code, stripRate(Rendered[r].code))
    /\ \/ isRate(Rendered[r].code)
       \/ ScannedByValue(r, n).qty > 0
       \/ ScannedByValue(r, n).sub > 0
       \/ ScannedByValue(r, n).tot > 0

ValueShare(n) ==
    [r \in 1..Len(Rendered) |->
        IF CarriesValueWithin(r, n)
        THEN [sub |-> Shown(ScannedByValue(r, n).sub),
              tot |-> Shown(ScannedByValue(r, n).tot)]
        ELSE [sub |-> 0, tot |-> 0]]

\* C21 as stated: in the value-based revision every node's subtotal and
\* total are the sums over all rate rows and all value-carrying non-rate rows
\* that lie within it, also when rate rows are attached to the node itself.
C21_AsStated ==
    RolledUp("valueBased") =>
        \A n \in 1..Len(Rendered) :
            IsNode(Rendered[n].code) =>
                /\ pol["valueBased"].rows[n].sub
                      = SumSeq(SubOf(ValueShare(n)), Len(Rendered))
                /\ pol["valueBased"].rows[n].tot
                      = SumSeq(TotOf(ValueShare(n)), Len(Rendered))

\* the same for the nodes that have no rate row attached to themselves
C21_WithoutDirectRates ==
    RolledUp("valueBased") =>
        \A n \in 1..Len(Rendered) :
            (/\ IsNode(Rendered[n].code)
             /\ \A r \in 1..Len(Rendered) :
                   isRate(Rendered[r].code)
                       => stripRate(Rendered[r].code) # Rendered[n].code) =>
                /\ pol["valueBased"].rows[n].sub
                      = SumSeq(SubOf(ValueShare(n)), Len(Rendered))
                /\ pol["valueBased"].rows[n].tot
                      = SumSeq(TotOf(ValueShare(n)), Len(Rendered))

-----------------------------------------------------------------------------
(* C24 *)

\* the row at index n is a priced leaf: a non-rate row without non-rate
\* children, without attached rate rows and without an uploaded subtotal or
\* total, whose quantity and rate are both non-zero
PricedLeaf(n) ==
    /\ IsNode(rows[n].code)
    /\ hier.childrenOf[rows[n].code] = <<>>
    /\ \A r \in 1..Len(rows) :
          isRate(rows[r].code) => stripRate(rows[r].code) # rows[n].code
    /\ ~rows[n].upSub /\ ~rows[n].upTot
    /\ data[n].QTY > 0 /\ data[n].RATE > 0

\* C24 as stated: after a full recompute every priced leaf shows
\* subtotal = quantity x rate, as the derived pass computed it.
C24_AsStated ==
    Ready =>
        \A n \in 1..Len(rows) :
            PricedLeaf(n) =>
                /\ pre[n].sub = data[n].QTY * data[n].RATE
                /\ rows[n].sub = pre[n].sub

-----------------------------------------------------------------------------
(* C28 *)

\* the rows each revision's load hands to its rollup pass
RollupInput(policy) ==
    IF policy = "uploadedOnly" THEN applyRowCalculations(enableRateEditing(Rendered))
    ELSE IF policy = "trueLeaf" THEN Rendered
    ELSE CalculatedByValue

\* a rollup pass that received before and left after kept to its frame
FrameKept(before, after) ==
    /\ Len(after) = Len(before)
    /\ \A i \in 1..Len(before) :
          /\ after[i].code = before[i].code
          /\ after[i].rate = before[i].rate
          /\ after[i].mk = before[i].mk
          /\ after[i].upSub = before[i].upSub
          /\ after[i].upMk = before[i].upMk
          /\ after[i].upTot = before[i].upTot
          /\ after[i].editable = before[i].editable
          /\ ~IsNode(before[i].code) => after[i] = before[i]

\* C28: a rollup pass changes only the quantity, subtotal and total of
\* non-rate rows with a code; every rate row, every row's code, rate, markup
\* and uploaded tags, and the hierarchy index stay as they were. This holds
\* for the pass of each revision at load and for the pass after a commit.
C28_RollupFrame ==
    /\ \A p \in Policies :
          RolledUp(p) =>
              /\ FrameKept(RollupInput(p), pol[p].rows)
              /\ buildHierarchyIndex(Codes(pol[p].rows)) = PolicyHier
    /\ Ready =>
          /\ FrameKept(pre, rows)
          /\ buildHierarchyIndex(Codes(rows)) = hier

\* the three passes over PolicyExample: the node 1.1.1.0 has a new subtotal
\* in the first revision, the rate row 1.1.1.1.R1 is as the pass received it
C28_Witness ==
    /\ pdata = PolicyExample
    /\ \A p \in Policies : RolledUp(p)
    /\ RollupInput("uploadedOnly")[1].sub = 5000
    /\ pol["uploadedOnly"].rows[1].sub = 8000
    /\ \A p \in Policies : pol[p].rows[3] = RollupInput(p)[3]
    /\ pol["uploadedOnly"].rows[3].sub = 3000

-----------------------------------------------------------------------------
(* C23 *)

\* following parentOf from code c reaches target within fuel steps
RECURSIVE ClimbsTo(_, _, _, _)
ClimbsTo(parentOf, c, target, fuel) ==
    IF c = target THEN TRUE
    ELSE IF fuel = 0 \/ c \notin DOMAIN parentOf \/ ~Truthy(parentOf[c]) THEN FALSE
    ELSE ClimbsTo(parentOf, parentOf[c], target, fuel - 1)

\* base is the node's code or below it in the parentOf tree
InTreeOf(nCode, base) ==
    ClimbsTo(hier.parentOf, base, nCode, Cardinality(DOMAIN hier.parentOf))

\* row r is summed into the rollup of the node at row n
SummedInto(r, n) == IsNode(rows[n].code) /\ Contributes(pre[r], rows[n].code)

IsRoot(n) ==
    /\ IsNode(rows[n].code)
    /\ hier.parentOf[rows[n].code] = Null

\* C23 as stated: a row r is summed into the rollup of a node n only if the
\* base code of r is n's code or a descendant of it in the parentOf tree; no
\* row is summed into the rollups of two root rows of different codes.
C23_AsStated ==
    Ready =>
        /\ \A n, r \in 1..Len(rows) :
              SummedInto(r, n) => InTreeOf(rows[n].code, stripRate(rows[r].code))
        /\ \A r, m, n \in 1..Len(rows) :
              (SummedInto(r, m) /\ SummedInto(r, n) /\ IsRoot(m) /\ IsRoot(n))
                  => rows[m].code = rows[n].code

\* the part about two roots alone
C23_TwoRoots ==
    Ready =>
        \A r, m, n \in 1..Len(rows) :
            (SummedInto(r, m) /\ SummedInto(r, n) /\ IsRoot(m) /\ IsRoot(n))
                => rows[m].code = rows[n].code

-----------------------------------------------------------------------------
(* C26 *)

\* C26 as stated: in every UI state reached by clicks after boot the icon of
\* each row with children is the expand glyph exactly when the row has class
\* expanded and the collapse glyph exactly when it has class collapsed, also
\* for rows collapsed along with an ancestor.
C26_AsStated ==
    Booted =>
        \A i \in 1..Len(urows) :
            (~isRate(urows[i]) /\ hasChildren(urows[i], uhier)) =>
                /\ ui[i].icon = EXPAND_ICON <=> "expanded" \in ui[i].classes
                /\ ui[i].icon = COLLAPSE_ICON <=> "collapsed" \in ui[i].classes

-----------------------------------------------------------------------------
(* C27 *)

Displayed(i) == ui[i].display = "grid"

\* some row with this code is displayed and expanded
ShownExpanded(code) ==
    \E j \in 1..Len(urows) :
        urows[j] = code /\ Displayed(j) /\ "expanded" \in ui[j].classes

\* C27: on a page of distinct codes, in every UI state reached by clicks
\* after boot every root row is displayed, a non-root non-rate row is
\* displayed exactly when its parent row is displayed and expanded, a rate row
\* is displayed exactly when its base row is displayed and expanded, and
\* every hidden non-rate row is collapsed.
C27_Visibility ==
    (Booted /\ Distinct(urows)) =>
        \A i \in 1..Len(urows) :
            /\ ui[i].display \in {"grid", "none"}
            /\ IsNode(urows[i]) =>
                  /\ uhier.parentOf[urows[i]] = Null => Displayed(i)
                  /\ uhier.parentOf[urows[i]] # Null =>
                        (Displayed(i) <=> ShownExpanded(uhier.parentOf[urows[i]]))
                  /\ ~Displayed(i) =>
                        /\ "collapsed" \in ui[i].classes
                        /\ "expanded" \notin ui[i].classes
            /\ isRate(urows[i]) =>
                  (Displayed(i) <=> ShownExpanded(stripRate(urows[i])))

\* 1.1.0.0 over 1.1.1.0 over 1.1.1.1 and the rate row 1.1.1.0.R1: after a
\* click on 1.1.0.0, one on 1.1.1.0 and a second one on 1.1.0.0 only the root
\* is displayed
C27_Witness ==
    /\ Booted
    /\ urows = << <<1, 1, 0, 0>>, <<1, 1, 1, 0>>, <<1, 1, 1, 1>>, <<1, 1, 1, 0, R1>> >>
    /\ ui[1].icon = COLLAPSE_ICON /\ ui[2].icon = EXPAND_ICON
    /\ Displayed(1) /\ ~Displayed(2) /\ ~Displayed(3) /\ ~Displayed(4)

-----------------------------------------------------------------------------
(* C29 *)

\* the rows' display as bootBoq leaves it
InitialView ==
    initBoqUI([i \in 1..Len(urows) |-> InitialVisibility(urows[i], uhier)],
              urows, uhier)

\* row i of the view can be clicked and the click expands it
CanExpand(view, i) ==
    /\ view[i].display # "none"
    /\ ~isRate(urows[i]) /\ hasChildren(urows[i], uhier)
    /\ "expanded" \notin view[i].classes

\* the view after the click listener of row i took its expand branch
ExpandClick(view, i) ==
    showImmediateChildren(urows[i],
                          [view EXCEPT ![i] = [Expanded(@) EXCEPT !.icon = EXPAND_ICON]],
                          urows, uhier)

\* the views reached from views by at most k expand clicks
RECURSIVE ExpandReach(_, _)
ExpandReach(views, k) ==
    IF k = 0 THEN views
    ELSE ExpandReach(views \cup {ExpandClick(v[1], v[2]) :
                                    v \in {w \in views \X (1..Len(urows)) :
                                              CanExpand(w[1], w[2])}},
                     k - 1)

CanBeDisplayed(r) ==
    \E view \in ExpandReach({InitialView}, Len(urows)) : view[r].display # "none"

\* row r may be summed into the rollup of the node at row n: it lies within
\* it (a non-rate row is summed when it carries uploaded money)
MaySumInto(r, n) ==
    /\ IsNode(urows[n])
    /\ Truthy(urows[r])
    /\ within(urows[n], stripRate(urows[r]))

\* C29 as stated: every row that is summed into some node's rollup can be
\* displayed by a sequence of expand clicks from the initial UI state, rate
\* rows whose base code is not the code of any row included.
C29_AsStated ==
    Booted =>
        \A r \in 1..Len(urows) :
            (\E n \in 1..Len(urows) : MaySumInto(r, n)) => CanBeDisplayed(r)

\* the same on pages of distinct codes for the rows whose base code is the
\* code of a row
C29_BaseIsRow ==
    (Booted /\ Distinct(urows)) =>
        \A r \in 1..Len(urows) :
            (/\ \E n \in 1..Len(urows) : MaySumInto(r, n)
             /\ \E b \in 1..Len(urows) : urows[b] = stripRate(urows[r]))
                => CanBeDisplayed(r)

\* a summed row that no reachable UI state displays
C29_NeverShown ==
    (Booted /\ urows = << <<1, 1, 1, 0>>, <<1, 1, 1, 1, R1>> >>) =>
        /\ MaySumInto(2, 1)
        /\ ui[2].display = "none"

-----------------------------------------------------------------------------
(* OVERRIDE PERSISTENCE *)

\* localStorage's item under CONFIG.STORAGE_KEY: absent, text that JSON.parse
\* rejects, or the JSON text of an override map
NoItem == [kind |-> "none", map |-> <<>>]
CorruptItem == [kind |-> "corrupt", map |-> <<>>]

\* JSON.parse(localStorage.getItem(key)) || {}, and {} when parse throws
loadOverrides(item) == IF item.kind = "json" THEN item.map ELSE <<>>

\* localStorage.setItem(key, JSON.stringify(obj))
saveOverrides(obj) == [kind |-> "json", map |-> obj]

\* { qty: qTxt === "" ? "" : parseNumber(qTxt), rate: ..., factor: ... }
OverrideEntry(qTxt, rTxt, fTxt) ==
    [qty |-> IF qTxt = Blank THEN Blank ELSE parseNumber(qTxt),
     rate |-> IF rTxt = Blank THEN Blank ELSE parseNumber(rTxt),
     factor |-> IF fTxt = Blank THEN Blank ELSE parseNumber(fTxt)]

\* enableEditingForRateRow with the override map it loads: the inputs start
\* with the stored override of the row's code, else with the cells' texts
enableEditingWithOverrides(r, overrides) ==
    IF ~Truthy(r.code) \/ ~isRate(r.code) THEN r
    ELSE IF r.editable THEN r
    ELSE IF r.code \in DOMAIN overrides
         THEN [r EXCEPT !.editable = TRUE,
                        !.qty = overrides[r.code].qty,
                        !.rate = overrides[r.code].rate,
                        !.mk = overrides[r.code].factor]
    ELSE [r EXCEPT !.editable = TRUE]

\* the overrides object each row's persistAndRefresh closes over
Unbound == [bound |-> FALSE, overrides |-> <<>>]

-----------------------------------------------------------------------------
(* SpecOverrides: a page of rate rows, its boot and the commits of edits *)

OvPool ==
    { CsvRow(<<1, 1, 1, 0>>, Blank, Blank, Blank, Blank, Blank),
      CsvRow(<<1, 1, 1, 0, R1>>, 2, 1500, Blank, 10, Blank),
      CsvRow(<<1, 1, 1, 0, R2>>, 1, 400, Blank, Blank, Blank),
      CsvRow(<<1, 1, 1, 1, R1>>, 1, 400, Blank, Blank, Blank) }

OvData == UNION {[1..n -> OvPool] : n \in 1..MaxPageRows}

\* what an earlier visit may have left in localStorage
StoredItems ==
    { NoItem, CorruptItem,
      saveOverrides(MapSet(<<>>, <<1, 1, 1, 0, R1>>, OverrideEntry(3, 1000, Blank))) }

InitOverrides ==
    /\ odata \in OvData
    /\ orows = <<>>
    /\ storage \in StoredItems
    /\ captured = <<>>
    /\ committed = {}
    /\ IdleCodes /\ IdleHier /\ IdleCalc /\ IdlePage /\ IdlePol /\ IdleUi /\ IdleBoot

OvHier == buildHierarchyIndex(Codes(renderFromCSV(odata)))

\* bootBoq once the CSV is fetched: enableRateEditing binds every rate row,
\* each call loading the override map anew
BootOverrides ==
    /\ orows = <<>>
    /\ LET all == renderFromCSV(odata)
           enabled == [i \in 1..Len(all) |->
                          enableEditingWithOverrides(all[i], loadOverrides(storage))]
       IN  IF OvHier.threw
           THEN /\ orows' = all
                /\ captured' = [i \in 1..Len(all) |-> Unbound]
           ELSE /\ orows' = FullRecompute(enabled, OvHier).rolled
                /\ captured' = [i \in 1..Len(all) |->
                                   IF enabled[i].editable
                                   THEN [bound |-> TRUE,
                                         overrides |-> loadOverrides(storage)]
                                   ELSE Unbound]
    /\ UNCHANGED <<codeVars, hierVars, calcVars, pageVars, polVars, uiVars,
                   odata, storage, committed, bootVars>>

\* persistAndRefresh of rate row i, its inputs holding t
CommitOverride(i, t) ==
    LET qTxt == normaliseEditableNumberText(t[1])
        rTxt == normaliseEditableNumberText(t[2])
        fTxt == normaliseEditableNumberText(t[3])
        overrides == MapSet(captured[i].overrides, orows[i].code,
                            OverrideEntry(qTxt, rTxt, fTxt))
        typed == [orows EXCEPT ![i].qty = qTxt, ![i].rate = rTxt, ![i].mk = fTxt]
    IN  /\ captured[i].bound
        /\ captured' = [captured EXCEPT ![i].overrides = overrides]
        /\ storage' = saveOverrides(overrides)
        /\ orows' = FullRecompute(typed, OvHier).rolled
        /\ committed' = committed \cup {i}
        /\ UNCHANGED <<codeVars, hierVars, calcVars, pageVars, polVars, uiVars,
                       odata, bootVars>>

CommitOverrides ==
    \E i \in 1..Len(orows) : \E t \in EditTriples : CommitOverride(i, t)

NextOverrides == BootOverrides \/ CommitOverrides

SpecOverrides == InitOverrides /\ [][NextOverrides]_vars

-----------------------------------------------------------------------------
(* C25 *)

\* the override entry that holds what row i's inputs show
ShownEntry(i) == OverrideEntry(orows[i].qty, orows[i].rate, orows[i].mk)

Stored(i) ==
    /\ storage.kind = "json"
    /\ orows[i].code \in DOMAIN storage.map
    /\ storage.map[orows[i].code] = ShownEntry(i)

\* C25 as stated: after edits are committed on two rate rows A and B of
\* different codes, in either order, the override map in storage holds the
\* last committed quantity, rate and factor of both A and B.
C25_AsStated ==
    \A a, b \in committed :
        orows[a].code # orows[b].code => Stored(a) /\ Stored(b)

\* with commits on a single row the stored entry is what the row shows
C25_OneRowEdited ==
    \A a \in committed : committed = {a} => Stored(a)

-----------------------------------------------------------------------------
(* SpecBoot: the DOMContentLoaded and turbo:load listeners and the calls of
   bootBoq they start on one boqContainer element *)

\* container.dataset.boqInit: absent, or "1"
Unset == "unset"
InitDone == "1"

BootData == UNION {[1..n -> PagePool] : n \in 0..1}

InitBoot ==
    /\ served \in BootData
    /\ container = [boqInit |-> Unset, loading |-> 0, rows |-> <<>>, renders |-> 0]
    /\ fired = [dom |-> FALSE, turbo |-> 0]
    /\ boots = <<>>
    /\ IdleCodes /\ IdleHier /\ IdleCalc /\ IdlePage /\ IdlePol /\ IdleUi /\ IdleOv

\* bootBoq up to its first await, on the element c: the guard, the flag, the
\* loading message, the fetch
StartBoot(c) ==
    IF c.boqInit = InitDone
    THEN /\ container' = c
         /\ boots' = boots
    ELSE /\ container' = [c EXCEPT !.boqInit = InitDone, !.loading = @ + 1]
         /\ boots' = Append(boots, "fetch")

\* document's DOMContentLoaded event: bootBoq is the listener
DOMContentLoaded ==
    /\ ~fired.dom
    /\ fired' = [fired EXCEPT !.dom = TRUE]
    /\ StartBoot(container)
    /\ UNCHANGED <<codeVars, hierVars, calcVars, pageVars, polVars, uiVars, ovVars,
                   served>>

\* a turbo:load event: the listener deletes the flag and calls bootBoq
TurboLoad ==
    /\ fired.turbo < MaxTurbo
    /\ fired' = [fired EXCEPT !.turbo = @ + 1]
    /\ StartBoot([container EXCEPT !.boqInit = Unset])
    /\ UNCHANGED <<codeVars, hierVars, calcVars, pageVars, polVars, uiVars, ovVars,
                   served>>

\* the fetch of call k settles: with res.ok the call goes on to await
\* res.text(), otherwise it throws and the catch block reports the failure
FetchReturns(k) ==
    /\ boots[k] = "fetch"
    /\ \E ok \in BOOLEAN :
          boots' = [boots EXCEPT ![k] = IF ok THEN "text" ELSE "failed"]
    /\ UNCHANGED <<codeVars, hierVars, calcVars, pageVars, polVars, uiVars, ovVars,
                   served, container, fired>>

\* res.text() of call k settles: the rest of bootBoq runs in one piece, from
\* parseCSV, loadingDiv.remove(), clearBoq and renderFromCSV to the rollups
TextReturns(k) ==
    /\ boots[k] = "text"
    /\ LET all == renderFromCSV(served)
           hierarchy == buildHierarchyIndex(Codes(all))
       IN  /\ container' =
                 [container EXCEPT
                     !.loading = @ - 1,
                     !.renders = @ + 1,
                     !.rows = IF hierarchy.threw THEN all
                              ELSE FullRecompute(enableRateEditing(all),
                                                 hierarchy).rolled]
           /\ boots' = [boots EXCEPT ![k] = IF hierarchy.threw THEN "failed"
                                             ELSE "done"]
    /\ UNCHANGED <<codeVars, hierVars, calcVars, pageVars, polVars, uiVars, ovVars,
                   served, fired>>

Settle == \E k \in 1..Len(boots) : FetchReturns(k) \/ TextReturns(k)

NextBoot == DOMContentLoaded \/ TurboLoad \/ Settle

SpecBoot == InitBoot /\ [][NextBoot]_vars

-----------------------------------------------------------------------------
(* C22 *)

\* C22 as stated: for one boqContainer element the fetch / clear / render /
\* build sequence of bootBoq runs at most once, whichever of the
\* DOMContentLoaded and turbo:load events fire and in whatever order, also
\* when the second event arrives while the first boot awaits its fetch.
C22_AsStated ==
    /\ Len(boots) <= 1
    /\ container.renders <= 1

\* the guard holds between events: a DOMContentLoaded that follows a
\* turbo:load starts nothing, so there is at most one call per turbo:load
\* and one more when DOMContentLoaded came first
C22_OnePerTurboLoad ==
    /\ Len(boots) <= 1 + fired.turbo
    /\ (fired.turbo = 0) => Len(boots) <= 1
    /\ container.renders <= Len(boots)

====
